---- MODULE Spec2Model ----
(***************************************************************************)
(* Multi-account request dispatch of the Antigravity OAuth plugin.         *)
(*                                                                         *)
(* Part 1: AccountManager (plugin/accounts.ts): the account list, the      *)
(*         current-account pointer, the round-robin cursor and the         *)
(*         per-family rate-limit reset times.                              *)
(*                                                                         *)
(* Accounts are kept in a sequence; the account at 0-based index i of the  *)
(* TypeScript array is accounts[i + 1].  An account reference is its       *)
(* position in the sequence (1..Len), Null is 0.  Date.now() is the        *)
(* variable now; one synchronous call reads one instant.  The fields no    *)
(* decision of the manager reads (parts, access, expires, email, lastUsed, *)
(* lastSwitchReason) are not part of the account record.                   *)
(*                                                                         *)
(* Part 2: the dispatch loop (plugin/fetch-wrapper.ts): one call of the    *)
(*         function createAntigravityFetch returns, for a request that is  *)
(*         intercepted (a generative-language URL under OAuth auth).  Each *)
(*         await of the loop is a step; the caller's abort signal may fire *)
(*         between any two steps.  Time passes in the sleeps only: network *)
(*         and file calls are taken as instantaneous.  Whether the access  *)
(*         token has expired, and whether a toast, a save or a network     *)
(*         call succeeds, is chosen by the environment at each step.       *)
(*                                                                         *)
(* Part 3: refreshAccessToken (plugin/token.ts) and the host credential    *)
(*         store it writes through client.auth.set.  A credential is a     *)
(*         record of numbers: refresh and access tokens are token ids, 0   *)
(*         is the empty string.  The refresh token of the account at       *)
(*         index i is the id i + 1.                                        *)
(*                                                                         *)
(* Part 4: the project context cache (plugin/project.ts).  A cache key is  *)
(*         the refresh string of a credential: the number k > 0 is the     *)
(*         string of token k without a managed project id, 0 - k the       *)
(*         string of the same token with the managed project id that a     *)
(*         resolution adds.  A promise is the number of the resolution     *)
(*         that settles it.                                                *)
(*                                                                         *)
(* Part 5: the persisted account store (plugin/storage.ts): the JSON       *)
(*         document of the file, in its versions 1, 2 and 3, and the       *)
(*         managers that concurrent dispatches build from it.  An object   *)
(*         of reset times is a function from its possible keys to a time,  *)
(*         Undefined for a key it does not have; an account that has no    *)
(*         such object holds NoObject.  A refresh token is its token id.   *)
(*                                                                         *)
(* Part 6: the refresh string codec (plugin/auth.ts).  A string is a       *)
(*         sequence of one-character strings.                              *)
(*                                                                         *)
(* Part 7: the request transformers (plugin/transform/claude.ts and        *)
(*         gemini.ts) with the thinking signature cache (plugin/cache.ts)  *)
(*         and the tool schema cache (plugin/tool-schema-cache.ts).  A     *)
(*         request body is a record of the fields the transformers         *)
(*         rewrite; a thought text is the sequence of its lines, a         *)
(*         signature its name and its length, a tool name a sequence of    *)
(*         one-character strings.                                          *)
(***************************************************************************)
EXTENDS Integers, Sequences, FiniteSets, TLC

\* ------------------------------------------------------------------ bounds
MaxAccounts == 2
MaxTime == 1
MaxCursor == 2
MaxMarks == 2
\* backend fetches made by one dispatch
MaxFetches == 3
\* invalid_grant answers one refresh token receives
MaxInvalidGrants == 2
\* project resolutions started
MaxResolutions == 3
\* dispatches running at the same time
MaxDispatches == 2
\* characters of a refresh string
MaxLen == 6
\* the parts of a model turn
MaxParts == 2
\* the entries that responses put into the signature cache
MaxEntries == 2
\* the function declarations of a request
MaxTools == 2

\* --------------------------------------------------------------- constants
Families == {"claude", "gemini-flash", "gemini-pro"}
\* tier?: AccountTier; "none" is the absent (undefined) tier
Tiers == {"none", "free", "paid"}
\* a missing key of rateLimitResetTimes
Undefined == -1
\* the null account reference
Null == 0
\* retryAfterMs values the callers of markRateLimited pass in this model
RetryChoices == {1}
WaitRetryChoices == {1, 2}
\* the families the callers ask for in this model
RequestFamilies == {"claude", "gemini-flash"}

VARIABLES
    accounts,             \* AccountManager.accounts
    currentIndex,         \* AccountManager.currentIndex (round-robin cursor)
    currentAccountIndex,  \* AccountManager.currentAccountIndex
    now,                  \* Date.now()
    last,                 \* the call just made and what it returned ("none": no call)
    pc,                   \* where the dispatch loop stands
    requestFamily,        \* family: the model family of the request
    usedAccount,          \* account: the account the loop iteration runs with
    endpoint,             \* i, the index into CODE_ASSIST_ENDPOINT_FALLBACKS
    contacted,            \* the fetches of this loop iteration: endpoint, outcome
                          \* and the retry delay the response carried
    rateLimitStateByAccount,  \* consecutive429 per account index
    sleeping,             \* the sleepWithBackoff call in progress
    abortSignal,          \* init.signal.aborted
    outcome,              \* how the promise of the dispatch settled
    fetches,              \* backend fetches made so far
    saved,                \* what save() wrote last (<<>>: nothing yet)
    unsavedMutations,     \* the marks, switches and refreshes no save() call followed yet
    revoked,              \* the refresh tokens the OAuth server has revoked
    hostAuth,             \* what the host credential store holds
    invalidGrants,        \* per refresh token: the invalid_grant answers received
    refreshCall,          \* the refreshAccessToken call just made, on its own
    projectContextResultCache,   \* cache key -> resolution whose result is cached
    projectContextPendingCache,  \* cache key -> resolution whose promise is pending
    resolving,            \* the resolveContext() calls in flight: number and key
    resolutionCount,      \* resolveContext() calls started so far
    projectCall,          \* the ensureProjectContext call just made
    storageFile,          \* the document in the account store file
    managers,             \* per dispatch: its AccountManager and its save() under way
    loadCall,             \* the loadAccounts call just made
    refreshString,        \* the refresh string handed to the codec
    codecCall,            \* the parse and format calls just made on it
    signatureCache,       \* cache.ts signatureCache: key -> signature
    toolSchemaCache,      \* tool-schema-cache.ts toolSchemaCache
    requestPayload,       \* the request body the host hands to the transformer
    transformCall,        \* the transformer call just made
    toolCall,             \* the normalizeToolCallArgs lookup just made
    recent,               \* the getNextForFamily calls made in a row, oldest first
    hostCredential,       \* the OAuth credential in the host credential store
    accountStore,         \* the accounts file, as save() writes it
    step,                 \* where the dispatch that carries credentials stands
    inUse,                \* the account that dispatch is processing
    backendRequest,       \* the request it sent to the backend last
    credentialCall        \* the step it took last

dvars == <<pc, requestFamily, usedAccount, endpoint, contacted, rateLimitStateByAccount,
           sleeping, abortSignal, outcome, fetches, saved, unsavedMutations>>

tvars == <<revoked, hostAuth, invalidGrants, refreshCall>>

pvars == <<projectContextResultCache, projectContextPendingCache, resolving,
           resolutionCount, projectCall>>

\* the variables of the components beside the manager, the dispatch loop and
\* the token refresh
svars == <<storageFile, managers, loadCall>>

cvars == <<refreshString, codecCall>>

xvars == <<signatureCache, toolSchemaCache, requestPayload, transformCall, toolCall>>

\* the variables of the components modelled after the account store
hvars == <<recent, hostCredential, accountStore, step, inUse, backendRequest,
           credentialCall>>

later == <<cvars, xvars, hvars>>

others == <<pvars, svars, later>>

\* the variables of the components beside the manager and the dispatch loop
rest == <<tvars, others>>

vars == <<accounts, currentIndex, currentAccountIndex, now, last,
          pc, requestFamily, usedAccount, endpoint, contacted,
          rateLimitStateByAccount,
          sleeping, abortSignal, outcome, fetches, saved, unsavedMutations,
          revoked, hostAuth, invalidGrants, refreshCall,
          projectContextResultCache, projectContextPendingCache, resolving,
          resolutionCount, projectCall,
          storageFile, managers, loadCall,
          refreshString, codecCall,
          signatureCache, toolSchemaCache, requestPayload, transformCall, toolCall,
          recent, hostCredential, accountStore, step, inUse, backendRequest,
          credentialCall>>

\* ------------------------------------------------------- accounts.ts helpers
NoLimits == [f \in Families |-> Undefined]

NewAccount(index, tier) ==
    [index |-> index, tier |-> tier, rateLimitResetTimes |-> NoLimits]

isRateLimitedForFamily(account, family, t) ==
    LET resetTime == account.rateLimitResetTimes[family]
    IN  resetTime # Undefined /\ t < resetTime

\* mutant: expired reset times are never deleted
clearExpiredRateLimits_Never(account, t) == account

clearExpiredRateLimits(account, t) ==
    LET old == account.rateLimitResetTimes
    IN  [account EXCEPT !.rateLimitResetTimes =
            [f \in Families |->
                IF old[f] # Undefined /\ t >= old[f] THEN Undefined ELSE old[f]]]

\* constructor: the account list built from n stored (or packed) accounts
Construct(tiers) ==
    [i \in 1..Len(tiers) |-> NewAccount(i - 1, tiers[i])]

\* constructor: activeIndex out of bounds is replaced by 0
ConstructActiveIndex(activeIndex, n) ==
    IF activeIndex >= 0 /\ activeIndex < n THEN activeIndex ELSE 0

getCurrentAccount(accs, cai) ==
    IF cai >= 0 /\ cai < Len(accs) THEN cai + 1 ELSE Null

Positions(accs) == [i \in 1..Len(accs) |-> i]

\* the pool getNextForFamily picks from: the paid accounts that are not rate
\* limited when there are any, else every account that is not rate limited
EligiblePool(accs, family, t) ==
    LET available == SelectSeq(Positions(accs),
                        LAMBDA p : ~isRateLimitedForFamily(accs[p], family, t))
        paidAvailable == SelectSeq(available, LAMBDA p : accs[p].tier = "paid")
    IN  IF Len(paidAvailable) > 0 THEN paidAvailable ELSE available

\* mutant: the pick is the cursor modulo the full account count
getNextForFamily_ModuloAll(accs, cursor, family, t) ==
    LET pool == EligiblePool(accs, family, t)
    IN  IF Len(pool) = 0
        THEN [account |-> Null, accounts |-> accs, currentIndex |-> cursor]
        ELSE IF cursor % Len(accs) >= Len(pool)
        THEN [account |-> Null, accounts |-> accs, currentIndex |-> cursor]
        ELSE [account |-> pool[(cursor % Len(accs)) + 1],
              accounts |-> accs,
              currentIndex |-> cursor + 1]

\* mutant: the pool is every available account, paid or not
getNextForFamily_NoTierPriority(accs, cursor, family, t) ==
    LET available == SelectSeq(Positions(accs),
                        LAMBDA p : ~isRateLimitedForFamily(accs[p], family, t))
    IN  IF Len(available) = 0
        THEN [account |-> Null, accounts |-> accs, currentIndex |-> cursor]
        ELSE [account |-> available[(cursor % Len(available)) + 1],
              accounts |-> accs,
              currentIndex |-> cursor + 1]

\* mutant: rate-limited accounts are not filtered out
getNextForFamily_NoFilter(accs, cursor, family, t) ==
    LET available == Positions(accs)
        paidAvailable == SelectSeq(available, LAMBDA p : accs[p].tier = "paid")
        pool == IF Len(paidAvailable) > 0 THEN paidAvailable ELSE available
    IN  IF Len(available) = 0
        THEN [account |-> Null, accounts |-> accs, currentIndex |-> cursor]
        ELSE [account |-> pool[(cursor % Len(pool)) + 1],
              accounts |-> accs,
              currentIndex |-> cursor + 1]

getNextForFamily(accs, cursor, family, t) ==
    LET available == SelectSeq(Positions(accs),
                        LAMBDA p : ~isRateLimitedForFamily(accs[p], family, t))
        paidAvailable == SelectSeq(available, LAMBDA p : accs[p].tier = "paid")
        pool == IF Len(paidAvailable) > 0 THEN paidAvailable ELSE available
    IN  IF Len(available) = 0
        THEN [account |-> Null, accounts |-> accs, currentIndex |-> cursor]
        ELSE LET account == pool[(cursor % Len(pool)) + 1]
             IN  [account |-> account,
                  accounts |-> accs,
                  currentIndex |-> cursor + 1]

\* mutant: plain round robin, the current account is not preferred
getCurrentOrNextForFamily_RoundRobin(accs, cursor, cai, family, t) ==
    LET cleared == [i \in 1..Len(accs) |-> clearExpiredRateLimits(accs[i], t)]
        next == getNextForFamily(cleared, cursor, family, t)
    IN  [account |-> next.account,
         accounts |-> next.accounts,
         currentIndex |-> next.currentIndex,
         currentAccountIndex |->
             IF next.account # Null THEN next.accounts[next.account].index ELSE cai]

\* mutant: the current account is kept even when it is rate-limited
getCurrentOrNextForFamily_KeepLimited(accs, cursor, cai, family, t) ==
    LET cleared == [i \in 1..Len(accs) |-> clearExpiredRateLimits(accs[i], t)]
        current == getCurrentAccount(cleared, cai)
        next == getNextForFamily(cleared, cursor, family, t)
    IN  IF current # Null
        THEN [account |-> current,
              accounts |-> cleared,
              currentIndex |-> cursor,
              currentAccountIndex |-> cai]
        ELSE [account |-> next.account,
              accounts |-> next.accounts,
              currentIndex |-> next.currentIndex,
              currentAccountIndex |->
                  IF next.account # Null THEN next.accounts[next.account].index ELSE cai]

getCurrentOrNextForFamily(accs, cursor, cai, family, t) ==
    LET cleared == [i \in 1..Len(accs) |-> clearExpiredRateLimits(accs[i], t)]
        current == getCurrentAccount(cleared, cai)
        betterTierAvailable ==
            /\ cleared[current].tier # "paid"
            /\ \E p \in 1..Len(cleared) :
                  cleared[p].tier = "paid" /\ ~isRateLimitedForFamily(cleared[p], family, t)
        next == getNextForFamily(cleared, cursor, family, t)
    IN  IF current # Null
           /\ ~isRateLimitedForFamily(cleared[current], family, t)
           /\ ~betterTierAvailable
        THEN [account |-> current,
              accounts |-> cleared,
              currentIndex |-> cursor,
              currentAccountIndex |-> cai]
        ELSE [account |-> next.account,
              accounts |-> next.accounts,
              currentIndex |-> next.currentIndex,
              currentAccountIndex |->
                  IF next.account # Null THEN next.accounts[next.account].index ELSE cai]

\* mutant: one reset time shared by all families
markRateLimited_AllFamilies(accs, account, retryAfterMs, family, t) ==
    [accs EXCEPT ![account].rateLimitResetTimes = [f \in Families |-> t + retryAfterMs]]

markRateLimited(accs, account, retryAfterMs, family, t) ==
    [accs EXCEPT ![account].rateLimitResetTimes[family] = t + retryAfterMs]

addAccount(accs, tier) ==
    Append(accs, NewAccount(Len(accs), tier))

\* mutant: the index fields are not recomputed after the splice
removeAccount_NoReindex(accs, index) ==
    IF index < 0 \/ index >= Len(accs)
    THEN accs
    ELSE SubSeq(accs, 1, index) \o SubSeq(accs, index + 2, Len(accs))

removeAccount(accs, index) ==
    IF index < 0 \/ index >= Len(accs)
    THEN accs
    ELSE LET spliced == SubSeq(accs, 1, index) \o SubSeq(accs, index + 2, Len(accs))
         IN  [i \in 1..Len(spliced) |-> [spliced[i] EXCEPT !.index = i - 1]]

Min(S) == CHOOSE x \in S : \A y \in S : x <= y

Max(S) == CHOOSE x \in S : \A y \in S : x >= y

\* mutant: the longest wait instead of the shortest
getMinWaitTimeForFamily_Max(accs, family, t) ==
    LET cleared == [i \in 1..Len(accs) |-> clearExpiredRateLimits(accs[i], t)]
        available == {p \in 1..Len(cleared) : ~isRateLimitedForFamily(cleared[p], family, t)}
        resets == {cleared[p].rateLimitResetTimes[family] : p \in 1..Len(cleared)} \ {Undefined}
        waitTimes == {IF r - t > 0 THEN r - t ELSE 0 : r \in resets}
    IN  [wait |-> IF available # {} THEN 0
                  ELSE IF waitTimes # {} THEN Max(waitTimes) ELSE 0,
         accounts |-> cleared]

getMinWaitTimeForFamily(accs, family, t) ==
    LET cleared == [i \in 1..Len(accs) |-> clearExpiredRateLimits(accs[i], t)]
        available == {p \in 1..Len(cleared) : ~isRateLimitedForFamily(cleared[p], family, t)}
        resets == {cleared[p].rateLimitResetTimes[family] : p \in 1..Len(cleared)} \ {Undefined}
        waitTimes == {IF r - t > 0 THEN r - t ELSE 0 : r \in resets}
    IN  [wait |-> IF available # {} THEN 0
                  ELSE IF waitTimes # {} THEN Min(waitTimes) ELSE 0,
         accounts |-> cleared]

\* ------------------------------------------------- fetch-wrapper.ts helpers
RATE_LIMIT_BACKOFF_BASE_MS == 1000
RATE_LIMIT_BACKOFF_MAX_MS == 3600000
\* switchThresholdMs of handleRateLimit
switchThresholdMs == 5000
\* retryAfterMs of handleServerError
ServerErrorRetryAfterMs == 60000
\* the wait of the loop when getMinWaitTimeForFamily returns 0
AllLimitedDefaultWaitMs == 60000
\* the wait of a single account when no other wait is known
SingleAccountDefaultWaitMs == 1000

CODE_ASSIST_ENDPOINT_FALLBACKS == <<"daily", "autopush", "prod">>

\* fetch threw instead of returning a response
NetworkError == 0
\* the statuses the backend answers with in this model
Responses == {200, 400, 403, 404, 429, 500}
\* serverRetryAfterMs: null
NoServerRetry == 0 - 1
\* the retry delays a 429 response carries in its body or headers
ServerRetryChoices == {NoServerRetry, 10000}

\* getModelFamilyFromUrl(urlString) of the requests dispatched in this model
DispatchFamilies == {"claude"}

\* mutant: the whole wait in one step
stepsMs_OneStep == <<86400000>>

stepsMs == <<3000, 5000, 10000, 20000, 30000>>

\* mutant: the delay the server asks for replaces the backoff
getRateLimitDelay_HintOnly(state, accountIndex, serverRetryAfterMs) ==
    LET attempt == state[accountIndex] + 1
        multiplier == 2 ^ (attempt - 1)
        backoffMs == Min({RATE_LIMIT_BACKOFF_MAX_MS, RATE_LIMIT_BACKOFF_BASE_MS * multiplier})
        delayMs == IF serverRetryAfterMs # NoServerRetry
                   THEN serverRetryAfterMs
                   ELSE backoffMs
    IN  [attempt |-> attempt,
         delayMs |-> delayMs,
         state |-> [state EXCEPT ![accountIndex] = attempt]]

computeExponentialBackoffMs(attempt) ==
    LET safeAttempt == Max({1, attempt})
        multiplier == 2 ^ (safeAttempt - 1)
    IN  Min({RATE_LIMIT_BACKOFF_MAX_MS, Max({0, RATE_LIMIT_BACKOFF_BASE_MS * multiplier})})

\* the delay of the next 429 of an account and the updated map
getRateLimitDelay(state, accountIndex, serverRetryAfterMs) ==
    LET attempt == state[accountIndex] + 1
        backoffMs == computeExponentialBackoffMs(attempt)
        delayMs == IF serverRetryAfterMs # NoServerRetry
                   THEN Max({serverRetryAfterMs, backoffMs})
                   ELSE backoffMs
    IN  [attempt |-> attempt,
         delayMs |-> delayMs,
         state |-> [state EXCEPT ![accountIndex] = attempt]]

resetRateLimitState(state, accountIndex) ==
    [state EXCEPT ![accountIndex] = 0]

\* mutant: a 429 is handed back like any other response
classify_RateLimitReturned(status, i) ==
    LET lastEndpoint == Len(CODE_ASSIST_ENDPOINT_FALLBACKS) - 1
    IN  IF status = NetworkError
        THEN IF i < lastEndpoint THEN "next" ELSE "throw"
        ELSE IF status >= 500 /\ i = lastEndpoint THEN "server-error"
        ELSE IF (status = 403 \/ status = 404 \/ status >= 500) /\ i < lastEndpoint
        THEN "next"
        ELSE "success"

\* mutant: every error status moves on to the next endpoint
classify_AnyError(status, i) ==
    LET lastEndpoint == Len(CODE_ASSIST_ENDPOINT_FALLBACKS) - 1
    IN  IF status = NetworkError
        THEN IF i < lastEndpoint THEN "next" ELSE "throw"
        ELSE IF status = 429 THEN "rate-limit"
        ELSE IF status >= 500 /\ i = lastEndpoint THEN "server-error"
        ELSE IF status >= 400 /\ i < lastEndpoint
        THEN "next"
        ELSE "success"

\* what tryEndpointFallbacks does with the outcome of the fetch at endpoint i
classify(status, i) ==
    LET lastEndpoint == Len(CODE_ASSIST_ENDPOINT_FALLBACKS) - 1
    IN  IF status = NetworkError
        THEN IF i < lastEndpoint THEN "next" ELSE "throw"
        ELSE IF status = 429 THEN "rate-limit"
        ELSE IF status >= 500 /\ i = lastEndpoint THEN "server-error"
        ELSE IF (status = 403 \/ status = 404 \/ status >= 500) /\ i < lastEndpoint
        THEN "next"
        ELSE "success"

\* AccountStorage as save() builds it
Storage(accs, cai) ==
    [accounts |-> [p \in 1..Len(accs) |->
                      [tier |-> accs[p].tier,
                       rateLimitResetTimes |-> accs[p].rateLimitResetTimes]],
     activeIndex |-> Max({0, cai})]

NotSleeping == [remainingMs |-> 0, stepIndex |-> 0, kind |-> "none"]

Pending == [kind |-> "pending", status |-> 0, reason |-> "", during |-> ""]

Returned(status) == [kind |-> "returned", status |-> status, reason |-> "", during |-> ""]

Rejected(reason, during) ==
    [kind |-> "rejected", status |-> 0, reason |-> reason, during |-> during]

\* ------------------------------------------------------- token.ts helpers
\* OAuthAuthDetails: refresh is parts.refreshToken
Auth(refresh, access, expires) ==
    [refresh |-> refresh, access |-> access, expires |-> expires]

\* accountToAuth: the access token and its expiry are not part of the account
\* record; whether the token has expired is an input of the Token step
accountToAuth(accs, p) == Auth(accs[p].index + 1, 0, 0)

\* what the token endpoint does with the request: the client secret is not
\* configured and no request is made, fetch throws, the answer is an error
\* with an OAuth error code, or the answer is a token payload (refresh_token
\* 0: the payload has none)
Exchange(kind, code, access_token, expires_in, refresh_token) ==
    [kind |-> kind, code |-> code, access_token |-> access_token,
     expires_in |-> expires_in, refresh_token |-> refresh_token]

Exchanges ==
    {Exchange("no-secret", "", 0, 0, 0), Exchange("throws", "", 0, 0, 0),
     Exchange("error", "invalid_grant", 0, 0, 0), Exchange("error", "other", 0, 0, 0)}
        \cup {Exchange("ok", "", 7, 3600, r) : r \in {0, 9}}

\* what one call does: the credential it returns (<<>>: undefined), whether a
\* token request was sent, what it hands to client.auth.set, whether it
\* invalidates the project context cache, whether it stores the credential in
\* the auth cache
Refreshed(result, requested, hostWrite, invalidated, cached) ==
    [result |-> result, requested |-> requested, hostWrite |-> hostWrite,
     invalidated |-> invalidated, cached |-> cached]

\* mutant: the refreshed credential is written to the host credential store
refreshAccessToken_Persists(auth, exchange, t) ==
    IF auth.refresh = 0 \/ exchange.kind = "no-secret"
    THEN Refreshed(<<>>, FALSE, "none", FALSE, FALSE)
    ELSE IF exchange.kind = "throws"
    THEN Refreshed(<<>>, TRUE, "none", FALSE, FALSE)
    ELSE IF exchange.kind = "error"
    THEN IF exchange.code = "invalid_grant"
         THEN Refreshed(<<>>, TRUE, "cleared", TRUE, FALSE)
         ELSE Refreshed(<<>>, TRUE, "none", FALSE, FALSE)
    ELSE Refreshed(<<Auth(IF exchange.refresh_token # 0
                          THEN exchange.refresh_token ELSE auth.refresh,
                          exchange.access_token,
                          t + exchange.expires_in * 1000)>>,
                   TRUE, "refreshed", TRUE, TRUE)

\* mutant: every failed refresh clears the stored credential
refreshAccessToken_ClearsOnAnyError(auth, exchange, t) ==
    IF auth.refresh = 0 \/ exchange.kind = "no-secret"
    THEN Refreshed(<<>>, FALSE, "none", FALSE, FALSE)
    ELSE IF exchange.kind = "throws"
    THEN Refreshed(<<>>, TRUE, "cleared", TRUE, FALSE)
    ELSE IF exchange.kind = "error"
    THEN Refreshed(<<>>, TRUE, "cleared", TRUE, FALSE)
    ELSE Refreshed(<<Auth(IF exchange.refresh_token # 0
                          THEN exchange.refresh_token ELSE auth.refresh,
                          exchange.access_token,
                          t + exchange.expires_in * 1000)>>,
                   TRUE, "none", TRUE, TRUE)

refreshAccessToken(auth, exchange, t) ==
    IF auth.refresh = 0 \/ exchange.kind = "no-secret"
    THEN Refreshed(<<>>, FALSE, "none", FALSE, FALSE)
    ELSE IF exchange.kind = "throws"
    THEN Refreshed(<<>>, TRUE, "none", FALSE, FALSE)
    ELSE IF exchange.kind = "error"
    THEN IF exchange.code = "invalid_grant"
         THEN Refreshed(<<>>, TRUE, "cleared", TRUE, FALSE)
         ELSE Refreshed(<<>>, TRUE, "none", FALSE, FALSE)
    ELSE Refreshed(<<Auth(IF exchange.refresh_token # 0
                          THEN exchange.refresh_token ELSE auth.refresh,
                          exchange.access_token,
                          t + exchange.expires_in * 1000)>>,
                   TRUE, "none", TRUE, TRUE)

\* client.auth.set(body): the store holds the body when the call succeeds
authSet(host, body, setOk) == IF body # "none" /\ setOk THEN body ELSE host

\* the exchanges of the dispatch: the account record holds no refresh token
\* that a rotation could replace
DispatchExchanges == {e \in Exchanges : e.refresh_token = 0}

\* no refreshAccessToken call made on its own
NoRefreshCall ==
    [auth |-> Auth(0, 0, 0), exchange |-> Exchange("none", "", 0, 0, 0),
     result |-> <<>>, at |-> 0, hostBefore |-> "", savedBefore |-> <<>>]

\* the tokens as login left them: none revoked, the login credential stored
NoRefresh ==
    /\ revoked = {}
    /\ hostAuth = "login"
    /\ invalidGrants = [r \in 1..Len(accounts) |-> 0]
    /\ refreshCall = NoRefreshCall

\* ----------------------------------------------------- project.ts helpers
\* the refresh strings used as cache keys
CacheKeys == {k \in (0 - MaxAccounts)..MaxAccounts : k # 0}

\* no entry under a key of a cache
NoEntry == 0

\* the key of result.auth: a resolution adds the managed project id to a
\* refresh string that has none
ResolvedKey(key) == IF key > 0 THEN 0 - key ELSE key

\* Map.delete(key); without a key, Map.clear()
invalidateProjectContextCache(cache, refresh) ==
    IF refresh = NoEntry
    THEN [k \in CacheKeys |-> NoEntry]
    ELSE [cache EXCEPT ![refresh] = NoEntry]

NoProjectCall == [key |-> NoEntry, kind |-> "none", promise |-> NoEntry]

\* both caches empty, nothing in flight
NoProject ==
    /\ projectContextResultCache = [k \in CacheKeys |-> NoEntry]
    /\ projectContextPendingCache = [k \in CacheKeys |-> NoEntry]
    /\ resolving = {}
    /\ resolutionCount = 0
    /\ projectCall = NoProjectCall

\* ------------------------------------------------------- storage.ts helpers
\* the keys of RateLimitStateV2
V2Keys == {"claude", "gemini"}

\* rateLimitResetTimes: undefined
NoObject == [undefined |-> TRUE]

\* no document: the file does not exist, loadAccounts returns null
NoDocument == [version |-> 0, accounts |-> <<>>, activeIndex |-> 0]

\* Object.keys(times).length > 0 ? times : undefined
NonEmptyOrUndefined(times) ==
    IF \E k \in DOMAIN times : times[k] # Undefined THEN times ELSE NoObject

\* mutant: the reset time goes to claude only
migrateV1ToV2_ClaudeOnly(v1) ==
    [version |-> 2,
     accounts |-> [i \in 1..Len(v1.accounts) |->
        LET acc == v1.accounts[i]
            limited == acc.isRateLimited /\ acc.rateLimitResetTime \notin {Undefined, 0}
        IN  [refreshToken |-> acc.refreshToken,
             rateLimitResetTimes |-> NonEmptyOrUndefined(
                [k \in V2Keys |-> IF limited /\ k = "claude"
                                  THEN acc.rateLimitResetTime ELSE Undefined])]],
     activeIndex |-> v1.activeIndex]

migrateV1ToV2(v1) ==
    [version |-> 2,
     accounts |-> [i \in 1..Len(v1.accounts) |->
        LET acc == v1.accounts[i]
            limited == acc.isRateLimited /\ acc.rateLimitResetTime \notin {Undefined, 0}
        IN  [refreshToken |-> acc.refreshToken,
             rateLimitResetTimes |-> NonEmptyOrUndefined(
                [k \in V2Keys |-> IF limited THEN acc.rateLimitResetTime ELSE Undefined])]],
     activeIndex |-> v1.activeIndex]

\* mutant: the gemini reset time goes to gemini-flash only
migrateV2ToV3_FlashOnly(v2) ==
    [version |-> 3,
     accounts |-> [i \in 1..Len(v2.accounts) |->
        LET acc == v2.accounts[i]
            old == acc.rateLimitResetTimes
        IN  [refreshToken |-> acc.refreshToken,
             tier |-> "none",
             rateLimitResetTimes |-> NonEmptyOrUndefined(
                [f \in Families |->
                    IF old = NoObject THEN Undefined
                    ELSE IF f = "claude" THEN old["claude"]
                    ELSE IF f = "gemini-flash" THEN old["gemini"]
                    ELSE Undefined])]],
     activeIndex |-> v2.activeIndex]

migrateV2ToV3(v2) ==
    [version |-> 3,
     accounts |-> [i \in 1..Len(v2.accounts) |->
        LET acc == v2.accounts[i]
            old == acc.rateLimitResetTimes
        IN  [refreshToken |-> acc.refreshToken,
             tier |-> "none",
             rateLimitResetTimes |-> NonEmptyOrUndefined(
                [f \in Families |->
                    IF old = NoObject THEN Undefined
                    ELSE IF f = "claude" THEN old["claude"]
                    ELSE old["gemini"]])]],
     activeIndex |-> v2.activeIndex]

\* the file holds text that JSON.parse rejects
InvalidJson == [unreadable |-> "SyntaxError"]

\* a JSON document whose accounts field is not an array
NotArrayDocument(version) == [version |-> version, accountsIsArray |-> FALSE]

\* how the try block of loadAccounts ends: with a return value or an error
Returns(value, saveCalls, file) ==
    [value |-> value, thrown |-> "", saveCalls |-> saveCalls, file |-> file]

Throws(error, saveCalls, file) ==
    [value |-> NoDocument, thrown |-> error, saveCalls |-> saveCalls, file |-> file]

\* activeIndex that is no integer or no index of the list becomes 0
NormalizeActiveIndex(storage) ==
    IF storage.activeIndex < 0 \/ storage.activeIndex >= Len(storage.accounts)
    THEN [storage EXCEPT !.activeIndex = 0]
    ELSE storage

\* mutant: every load saves what it read
loadAccountsTry_AlwaysSaves(data, writeOk) ==
    IF data = NoDocument THEN Throws("ENOENT", <<>>, data)
    ELSE IF data = InvalidJson THEN Throws("SyntaxError", <<>>, data)
    ELSE IF "accountsIsArray" \in DOMAIN data THEN Returns(NoDocument, <<>>, data)
    ELSE IF data.version \notin {1, 2, 3} THEN Returns(NoDocument, <<>>, data)
    ELSE LET storage == IF data.version = 1 THEN migrateV2ToV3(migrateV1ToV2(data))
                        ELSE IF data.version = 2 THEN migrateV2ToV3(data)
                        ELSE data
         IN  IF writeOk
             THEN Returns(NormalizeActiveIndex(storage), <<storage>>, storage)
             ELSE Throws("EIO", <<storage>>, data)

\* the try block of loadAccounts: what it returns or throws, the documents it
\* hands to saveAccounts and the document the file holds afterwards.
\* writeOk: fs.writeFile succeeds.
loadAccountsTry(data, writeOk) ==
    IF data = NoDocument THEN Throws("ENOENT", <<>>, data)
    ELSE IF data = InvalidJson THEN Throws("SyntaxError", <<>>, data)
    ELSE IF "accountsIsArray" \in DOMAIN data THEN Returns(NoDocument, <<>>, data)
    ELSE IF data.version = 1
    THEN LET storage == migrateV2ToV3(migrateV1ToV2(data))
         IN  IF writeOk
             THEN Returns(NormalizeActiveIndex(storage), <<storage>>, storage)
             ELSE Throws("EIO", <<storage>>, data)
    ELSE IF data.version = 2
    THEN LET storage == migrateV2ToV3(data)
         IN  IF writeOk
             THEN Returns(NormalizeActiveIndex(storage), <<storage>>, storage)
             ELSE Throws("EIO", <<storage>>, data)
    ELSE IF data.version = 3
    THEN Returns(NormalizeActiveIndex(data), <<>>, data)
    ELSE Returns(NoDocument, <<>>, data)

\* mutant: only the missing file is caught
loadAccounts_Rethrows(data, writeOk) ==
    LET try == loadAccountsTry(data, writeOk)
    IN  [result |-> try.value,
         threw |-> try.thrown \notin {"", "ENOENT"},
         saveCalls |-> try.saveCalls,
         file |-> try.file]

\* loadAccounts: the try block, and the catch that turns every error into null
loadAccounts(data, writeOk) ==
    LET try == loadAccountsTry(data, writeOk)
    IN  [result |-> IF try.thrown # "" THEN NoDocument ELSE try.value,
         threw |-> FALSE,
         saveCalls |-> try.saveCalls,
         file |-> try.file]

\* the document save() hands to saveAccounts
StorageDocument(accs, cai) ==
    [version |-> 3,
     accounts |-> [p \in 1..Len(accs) |->
                      [refreshToken |-> accs[p].index + 1,
                       tier |-> accs[p].tier,
                       rateLimitResetTimes |-> accs[p].rateLimitResetTimes]],
     activeIndex |-> Max({0, cai})]

\* constructor, from stored accounts
ConstructStored(stored) ==
    [accounts |-> [i \in 1..Len(stored.accounts) |->
                      [index |-> i - 1,
                       tier |-> stored.accounts[i].tier,
                       rateLimitResetTimes |->
                           IF stored.accounts[i].rateLimitResetTimes = NoObject
                           THEN NoLimits
                           ELSE stored.accounts[i].rateLimitResetTimes]],
     currentIndex |-> ConstructActiveIndex(stored.activeIndex, Len(stored.accounts)),
     currentAccountIndex |-> ConstructActiveIndex(stored.activeIndex, Len(stored.accounts)),
     writing |-> <<>>]

\* the document the login flow saves for accounts of the given tiers
LoginDocument(tiers) ==
    [version |-> 3,
     accounts |-> [i \in 1..Len(tiers) |->
                      [refreshToken |-> i, tier |-> tiers[i],
                       rateLimitResetTimes |-> NoObject]],
     activeIndex |-> 0]

Dispatches == 1..MaxDispatches

\* a dispatch that is not running has no manager
NoManager ==
    [accounts |-> <<>>, currentIndex |-> 0 - 1, currentAccountIndex |-> 0 - 1,
     writing |-> <<>>]

NoLoadCall == [input |-> NoDocument, result |-> NoDocument, saveCalls |-> <<>>,
               called |-> FALSE, threw |-> FALSE]

NoStorage ==
    /\ storageFile = NoDocument
    /\ managers = [d \in Dispatches |-> NoManager]
    /\ loadCall = NoLoadCall

\* ---------------------------------------------------------- auth.ts helpers
ACCOUNT_SEPARATOR == <<"|", "|">>

\* a part that is undefined
UndefinedPart == <<"undefined">>

\* the first index at which sep occurs in s, 0 when it does not occur
IndexOf(s, sep) ==
    LET hits == {i \in 1..(Len(s) - Len(sep) + 1) : SubSeq(s, i, i + Len(sep) - 1) = sep}
    IN  IF hits = {} THEN 0 ELSE Min(hits)

RECURSIVE Split(_, _)
\* String.prototype.split with a non-empty separator
Split(s, sep) ==
    LET i == IndexOf(s, sep)
    IN  IF i = 0 THEN <<s>>
        ELSE <<SubSeq(s, 1, i - 1)>> \o Split(SubSeq(s, i + Len(sep), Len(s)), sep)

RECURSIVE Trim(_)
\* String.prototype.trim
Trim(s) ==
    IF s = <<>> THEN s
    ELSE IF Head(s) = " " THEN Trim(Tail(s))
    ELSE IF s[Len(s)] = " " THEN Trim(SubSeq(s, 1, Len(s) - 1))
    ELSE s

\* s => s.trim()
NotBlank(s) == Trim(s) # <<>>

RECURSIVE Join(_, _)
\* Array.prototype.join
Join(list, sep) ==
    IF list = <<>> THEN <<>>
    ELSE IF Len(list) = 1 THEN list[1]
    ELSE list[1] \o sep \o Join(Tail(list), sep)

\* value || undefined
OrUndefined(value) == IF value = <<>> THEN UndefinedPart ELSE value

parseRefreshParts(refresh) ==
    LET segments == Split(refresh, <<"|">>)
        segment(k) == IF k <= Len(segments) THEN segments[k] ELSE <<>>
    IN  [refreshToken |-> segment(1),
         projectId |-> OrUndefined(segment(2)),
         managedProjectId |-> OrUndefined(segment(3))]

\* mutant: the managed project segment is always written
formatRefreshParts_ThreeSegments(parts) ==
    LET projectSegment == IF parts.projectId = UndefinedPart THEN <<>> ELSE parts.projectId
        managedSegment == IF parts.managedProjectId = UndefinedPart
                          THEN <<>> ELSE parts.managedProjectId
    IN  parts.refreshToken \o <<"|">> \o projectSegment \o <<"|">> \o managedSegment

formatRefreshParts(parts) ==
    LET projectSegment == IF parts.projectId = UndefinedPart THEN <<>> ELSE parts.projectId
        base == parts.refreshToken \o <<"|">> \o projectSegment
    IN  IF parts.managedProjectId \notin {UndefinedPart, <<>>}
        THEN base \o <<"|">> \o parts.managedProjectId
        ELSE base

parseMultiAccountRefresh(refresh) ==
    IF refresh = <<>> THEN <<>>
    ELSE LET accountStrings == SelectSeq(Split(refresh, ACCOUNT_SEPARATOR), NotBlank)
         IN  [i \in 1..Len(accountStrings) |-> parseRefreshParts(accountStrings[i])]

formatMultiAccountRefresh(parts) ==
    Join(SelectSeq([i \in 1..Len(parts) |-> formatRefreshParts(parts[i])], NotBlank),
         ACCOUNT_SEPARATOR)

NoCodecCall == [op |-> "none", parts |-> <<>>, output |-> <<>>]

NoCodec ==
    /\ refreshString = <<>>
    /\ codecCall = NoCodecCall

\* ------------------------------------------------- thinking signature cache
\* A signature is an opaque string: its identity and its length.  undefined
\* and the empty string are the signature of length 0.
NoSignature == [name |-> "", length |-> 0]

\* the signature a backend of the family attaches to its thinking
ProviderSignature(family) == [name |-> family, length |-> 60]

\* part.text of a part that has no text
NoText == <<>>

\* the empty string
EmptyText == <<"">>

\* text.trim(): a line is empty or starts and ends with a visible character,
\* so that trimming removes the empty lines at both ends
normalizeThoughtText(text) ==
    LET visible == {i \in 1..Len(text) : text[i] # ""}
    IN  IF visible = {} THEN EmptyText
        ELSE SubSeq(text, Min(visible), Max(visible))

\* the SHA-256 of family:sessionId:text, taken as injective; a family and a
\* session id (a minus sign and digits) hold no colon
getSignatureKey(family, sessionId, thoughtText) ==
    <<family, sessionId, normalizeThoughtText(thoughtText)>>

EmptyCache == [key \in {} |-> NoSignature]

cacheSignature(cache, family, sessionId, thoughtText, signature) ==
    LET key == getSignatureKey(family, sessionId, thoughtText)
    IN  [k \in DOMAIN cache \cup {key} |-> IF k = key THEN signature ELSE cache[k]]

getCachedSignature_AnyFamily(cache, family, sessionId, thoughtText) ==
    LET keys == {getSignatureKey(f, sessionId, thoughtText) : f \in Families}
                    \cap DOMAIN cache
    IN  IF keys # {} THEN cache[CHOOSE key \in keys : TRUE] ELSE NoSignature

getCachedSignature(cache, family, sessionId, thoughtText) ==
    LET key == getSignatureKey(family, sessionId, thoughtText)
    IN  IF key \in DOMAIN cache THEN cache[key] ELSE NoSignature

\* ----------------------------------------------------- request transformers
\* the parts of a content: a thinking part (thought: true), a plain text
\* part, a function call and a function response.  An id is a tuple; no id
\* (undefined or the empty string) is <<>>.
NoId == <<>>

ThoughtPart(text, signature) ==
    [kind |-> "thought", text |-> text, thoughtSignature |-> signature, id |-> NoId,
     name |-> ""]

TextPart(text, signature) ==
    [kind |-> "text", text |-> text, thoughtSignature |-> signature, id |-> NoId,
     name |-> ""]

\* a call of the tool read
FunctionCallPart(id, signature) ==
    [kind |-> "functionCall", text |-> NoText, thoughtSignature |-> signature, id |-> id,
     name |-> "read"]

\* part.functionCall or part.functionResponse of the tool of the given name
FunctionPart(kind, name, id) ==
    [kind |-> kind, text |-> NoText, thoughtSignature |-> NoSignature, id |-> id,
     name |-> name]

THOUGHT_SIGNATURE_BYPASS == [name |-> "skip_thought_signature_validator", length |-> 32]

\* `${functionCall.name}-${randomUUID()}`: n numbers the UUIDs of a call of
\* the transformer, no two of which are equal
GeneratedCallId(name, n) == <<name, "uuid", n>>

\* the tools a conversation calls
FunctionNames == {"read", "bash"}

\* funcCallIdQueues, no id queued
NoQueues == [name \in FunctionNames |-> <<>>]

\* mutant: the response takes the id queued last
assignResponseId_Last(part, queues) ==
    IF part.id = NoId /\ queues[part.name] # <<>>
    THEN [part |-> [part EXCEPT !.id = queues[part.name][Len(queues[part.name])]],
          queues |-> [queues EXCEPT ![part.name] =
                          SubSeq(@, 1, Len(@) - 1)]]
    ELSE [part |-> part, queues |-> queues]

\* a function response without an id takes the first id of the queue of its
\* name, when there is one
assignResponseId(part, queues) ==
    IF part.id = NoId /\ queues[part.name] # <<>>
    THEN [part |-> [part EXCEPT !.id = Head(queues[part.name])],
          queues |-> [queues EXCEPT ![part.name] = Tail(@)]]
    ELSE [part |-> part, queues |-> queues]

\* the lines the two patterns of isMarkerLine match
MarkerLines == {"Tool: read", "think: plan"}

isMarkerLine(line) == line \in MarkerLines

NotMarkerLine(line) == ~isMarkerLine(line)

\* scrubToolTranscriptArtifacts(text).cleaned of a text without code fences,
\* too short to hold four line breaks in a row
scrubToolTranscriptArtifacts(text) ==
    LET output == SelectSeq(text, NotMarkerLine)
    IN  IF output = <<>> THEN EmptyText ELSE output

scrubPart(part) ==
    IF part.text = NoText THEN part
    ELSE [part EXCEPT !.text = scrubToolTranscriptArtifacts(part.text)]

scrubConversationArtifactsFromModelHistory(contents) ==
    [c \in 1..Len(contents) |->
        IF contents[c].role # "model" THEN contents[c]
        ELSE [contents[c] EXCEPT
                 !.parts = [p \in 1..Len(contents[c].parts) |-> scrubPart(contents[c].parts[p])]]]

\* the loop of transformGeminiRequest over the parts of a model content:
\* filtered is filteredParts, current is currentThoughtSignature
RECURSIVE filterGeminiParts(_, _, _, _, _)
filterGeminiParts(parts, context, cache, current, filtered) ==
    IF parts = <<>> THEN filtered
    ELSE LET part == Head(parts)
             cachedSig == IF part.text # NoText /\ part.text # EmptyText
                             /\ context.sessionId # ""
                          THEN getCachedSignature(cache, context.family,
                                                  context.sessionId, part.text)
                          ELSE NoSignature
         IN  IF part.kind = "thought"
             THEN IF cachedSig.length > 0
                  THEN filterGeminiParts(Tail(parts), context, cache, cachedSig,
                           Append(filtered, [part EXCEPT !.thoughtSignature = cachedSig]))
                  ELSE filterGeminiParts(Tail(parts), context, cache, current, filtered)
             ELSE IF part.kind = "functionCall"
             THEN filterGeminiParts(Tail(parts), context, cache, current,
                      Append(filtered,
                             IF part.thoughtSignature.length = 0
                             THEN [part EXCEPT !.thoughtSignature =
                                       IF current.length > 0 THEN current
                                       ELSE THOUGHT_SIGNATURE_BYPASS]
                             ELSE part))
             ELSE filterGeminiParts(Tail(parts), context, cache, current,
                      Append(filtered, [part EXCEPT !.thoughtSignature = NoSignature]))

filterGeminiContents(contents, context, cache) ==
    [c \in 1..Len(contents) |->
        IF contents[c].role # "model" THEN contents[c]
        ELSE [contents[c] EXCEPT
                 !.parts = filterGeminiParts(contents[c].parts, context, cache,
                                             NoSignature, <<>>)]]

\* a model name is the sequence of the words between its hyphens
ClaudeModel == <<"claude", "sonnet", "4", "5", "thinking">>
ClaudeModels == {ClaudeModel, <<"claude", "sonnet", "4", "5">>,
                 <<"gemini", "claude", "sonnet", "4", "5">>}
GeminiModels == {<<"gemini", "3", "pro", "high">>, <<"gemini", "3", "flash">>}

\* model.includes(word), for a word that no other word of a name contains
Includes(model, word) == \E i \in 1..Len(model) : model[i] = word

\* generationConfig.thinkingConfig: thinkingBudget is the budget under either
\* spelling, includeThoughts the flag under either spelling; the thinking
\* level, which the Claude transformer does not pass on, is left out
NoThinkingConfig ==
    [defined |-> FALSE, thinkingBudget |-> Undefined, includeThoughts |-> "undefined"]

ThinkingConfig(budget, include) ==
    [defined |-> TRUE, thinkingBudget |-> budget, includeThoughts |-> include]

NoGenerationConfig ==
    [defined |-> FALSE, thinkingConfig |-> NoThinkingConfig,
     maxOutputTokens |-> Undefined, max_output_tokens |-> Undefined]

normalizeThinkingConfig(config) ==
    IF ~config.defined
       \/ (config.thinkingBudget = Undefined /\ config.includeThoughts = "undefined")
    THEN NoThinkingConfig
    ELSE config

\* the thinking budget of a thinking model that sets none
DefaultThinkingBudget == 16384

newMax == 64000

\* requestPayload.generationConfig of transformGeminiRequest, and of
\* transformClaudeRequest for a model that is not a thinking model
plainGenerationConfig(rawGenerationConfig) ==
    LET normalizedThinking == normalizeThinkingConfig(rawGenerationConfig.thinkingConfig)
    IN  [rawGenerationConfig EXCEPT !.thinkingConfig = normalizedThinking]

\* requestPayload.generationConfig of transformClaudeRequest
claudeGenerationConfig(context, rawGenerationConfig) ==
    LET normalizedThinking == normalizeThinkingConfig(rawGenerationConfig.thinkingConfig)
        budget == IF normalizedThinking.thinkingBudget \in {Undefined, 0}
                  THEN DefaultThinkingBudget
                  ELSE normalizedThinking.thinkingBudget
        finalThinkingConfig ==
            ThinkingConfig(budget,
                           IF normalizedThinking.includeThoughts = "undefined" THEN "true"
                           ELSE normalizedThinking.includeThoughts)
        currentMax == IF rawGenerationConfig.maxOutputTokens # Undefined
                      THEN rawGenerationConfig.maxOutputTokens
                      ELSE rawGenerationConfig.max_output_tokens
        thinking ==
            IF rawGenerationConfig.defined
            THEN IF budget # 0 /\ (currentMax \in {Undefined, 0} \/ currentMax <= budget)
                 THEN [rawGenerationConfig EXCEPT !.thinkingConfig = finalThinkingConfig,
                                                  !.maxOutputTokens = newMax,
                                                  !.max_output_tokens = Undefined]
                 ELSE [rawGenerationConfig EXCEPT !.thinkingConfig = finalThinkingConfig]
            ELSE [defined |-> TRUE, thinkingConfig |-> finalThinkingConfig,
                  maxOutputTokens |-> newMax, max_output_tokens |-> Undefined]
        config == IF Includes(context.model, "thinking") THEN thinking
                  ELSE plainGenerationConfig(rawGenerationConfig)
    IN  IF context.model = <<"gemini", "claude", "sonnet", "4", "5">>
        THEN [config EXCEPT !.thinkingConfig = NoThinkingConfig]
        ELSE config

\* a cached content reference that is not there
Absent == "undefined"

\* a ?? b
Coalesce(a, b) == IF a # Absent THEN a ELSE b

\* extra_body: its two cached content fields and whether it has other keys
NoExtraBody ==
    [defined |-> FALSE, cached_content |-> Absent, cachedContent |-> Absent,
     other |-> FALSE]

\* the cached content statements of both transformers, one after the other
collapseCachedContent(requestPayload_) ==
    LET cachedContentFromExtra ==
            IF requestPayload_.extra_body.defined
            THEN Coalesce(requestPayload_.extra_body.cached_content,
                          requestPayload_.extra_body.cachedContent)
            ELSE Absent
        cachedContent == Coalesce(requestPayload_.cached_content,
                                  Coalesce(requestPayload_.cachedContent,
                                           cachedContentFromExtra))
        assigned == IF cachedContent \notin {Absent, ""}
                    THEN [requestPayload_ EXCEPT !.cachedContent = cachedContent]
                    ELSE requestPayload_
        deleted == [assigned EXCEPT !.cached_content = Absent, !.cachedContent = Absent]
    IN  IF ~deleted.extra_body.defined THEN deleted
        ELSE IF ~deleted.extra_body.other THEN [deleted EXCEPT !.extra_body = NoExtraBody]
        ELSE [deleted EXCEPT !.extra_body.cached_content = Absent,
                             !.extra_body.cachedContent = Absent]

\* ------------------------------------------------------- tool schema cache
\* A tool name is a sequence of one-character strings.
Digits == {"0", "1", "2", "3", "4", "5", "6", "7", "8", "9"}

ParamNames == {"code", "files"}

\* /^[0-9]/.test(name) ? `t_${name}` : name
sanitizeToolNameForGemini_NoPrefix(name) == name

sanitizeToolNameForGemini(name) ==
    IF name # <<>> /\ name[1] \in Digits THEN <<"t", "_">> \o name ELSE name

\* the same function of tool-schema-cache.ts
sanitizeToolName(name) ==
    IF name # <<>> /\ name[1] \in Digits THEN <<"t", "_">> \o name ELSE name

\* a function declaration: its name, and the properties of its parameter
\* schema (parametersJsonSchema ?? parameters): per parameter name the type of
\* its schema, "" for a schema without type and "undefined" for a parameter
\* the schema does not have
NoProperties == [defined |-> FALSE, types |-> [p \in ParamNames |-> "undefined"]]

Properties(types) == [defined |-> TRUE, types |-> types]

FunctionDeclaration(name, properties) == [name |-> name, properties |-> properties]

sanitizeToolNames(tools) ==
    [i \in 1..Len(tools) |-> [tools[i] EXCEPT !.name = sanitizeToolNameForGemini(@)]]

\* extractSchemaInfo(paramSchema).type
extractSchemaInfo(type) ==
    IF type = "undefined" THEN "undefined" ELSE IF type = "" THEN "unknown" ELSE type

EmptyToolCache == [name \in {} |-> NoProperties.types]

RECURSIVE cacheToolSchemas(_, _)
cacheToolSchemas(cache, tools) ==
    IF tools = <<>> THEN cache
    ELSE LET funcDecl == Head(tools)
             originalName == funcDecl.name
             sanitizedName == sanitizeToolName(originalName)
             paramMap == [p \in ParamNames |-> extractSchemaInfo(funcDecl.properties.types[p])]
         IN  IF ~funcDecl.properties.defined THEN cacheToolSchemas(cache, Tail(tools))
             ELSE cacheToolSchemas(
                      [name \in DOMAIN cache \cup {sanitizedName, originalName} |->
                          IF name \in {sanitizedName, originalName} THEN paramMap
                          ELSE cache[name]],
                      Tail(tools))

getParamType(cache, toolName, paramName) ==
    IF toolName \in DOMAIN cache THEN cache[toolName][paramName] ELSE "undefined"

\* transformGeminiRequest(context, parsedBody).body.request
transformGeminiRequest(context, parsedBody, cache) ==
    LET collapsed == collapseCachedContent(parsedBody)
    IN  [collapsed EXCEPT
            !.generationConfig = plainGenerationConfig(parsedBody.generationConfig),
            !.tools = sanitizeToolNames(parsedBody.tools),
            !.contents = filterGeminiContents(
                             scrubConversationArtifactsFromModelHistory(parsedBody.contents),
                             context, cache)]

\* the loop of transformClaudeRequest over the parts of a content: filtered
\* is filteredParts; cacheSignature acts on the cache as the loop goes, queues
\* is funcCallIdQueues and generated counts the ids generated so far
RECURSIVE filterClaudeParts(_, _, _, _, _, _)
filterClaudeParts(parts, context, cache, filtered, queues, generated) ==
    IF parts = <<>>
    THEN [parts |-> filtered, cache |-> cache, queues |-> queues, generated |-> generated]
    ELSE LET part == Head(parts)
             own == part.thoughtSignature
             cached == IF (own.length = 0 \/ own.length < 50) /\ part.text # NoText
                       THEN getCachedSignature(cache, context.family,
                                               context.sessionId, part.text)
                       ELSE NoSignature
             signature == IF cached.length > 0 THEN cached ELSE own
         IN  IF part.kind = "thought"
             THEN IF signature.length > 50
                  THEN filterClaudeParts(Tail(parts), context,
                           IF part.text # NoText /\ context.sessionId # ""
                           THEN cacheSignature(cache, context.family, context.sessionId,
                                               part.text, signature)
                           ELSE cache,
                           Append(filtered, [part EXCEPT !.thoughtSignature = signature]),
                           queues, generated)
                  ELSE filterClaudeParts(Tail(parts), context, cache, filtered,
                                         queues, generated)
             ELSE IF part.kind = "functionCall"
             THEN LET callId == IF part.id = NoId
                                THEN GeneratedCallId(part.name, generated + 1)
                                ELSE part.id
                  IN  filterClaudeParts(Tail(parts), context, cache,
                          Append(filtered, [part EXCEPT !.id = callId]),
                          [queues EXCEPT ![part.name] = Append(@, callId)],
                          IF part.id = NoId THEN generated + 1 ELSE generated)
             ELSE IF part.kind = "functionResponse"
             THEN LET assigned == assignResponseId(part, queues)
                  IN  filterClaudeParts(Tail(parts), context, cache,
                                        Append(filtered, assigned.part),
                                        assigned.queues, generated)
             ELSE filterClaudeParts(Tail(parts), context, cache, Append(filtered, part),
                                    queues, generated)

\* the loop over the contents: the queues live as long as the call
RECURSIVE filterClaudeContents(_, _, _, _, _, _)
filterClaudeContents(contents, context, cache, done, queues, generated) ==
    IF contents = <<>> THEN [contents |-> done, cache |-> cache]
    ELSE LET content == Head(contents)
             result == filterClaudeParts(content.parts, context, cache, <<>>,
                                         queues, generated)
         IN  filterClaudeContents(Tail(contents), context, result.cache,
                                  Append(done, [content EXCEPT !.parts = result.parts]),
                                  result.queues, result.generated)

\* transformClaudeRequest(context, parsedBody): the request of the wrapped
\* body, and the signature cache the call leaves behind
transformClaudeRequest(context, parsedBody, cache) ==
    LET result == filterClaudeContents(parsedBody.contents, context, cache, <<>>,
                                       NoQueues, 0)
        collapsed == collapseCachedContent(parsedBody)
    IN  [request |-> [collapsed EXCEPT
                         !.generationConfig =
                             claudeGenerationConfig(context, parsedBody.generationConfig),
                         !.contents = result.contents],
         cache |-> result.cache]

getModelFamily(model) ==
    IF Includes(model, "claude") THEN "claude"
    ELSE IF Includes(model, "flash") THEN "gemini-flash"
    ELSE "gemini-pro"

Context(model, sessionId) ==
    [model |-> model, family |-> getModelFamily(model), sessionId |-> sessionId]

NoPayload ==
    [contents |-> <<>>, generationConfig |-> NoGenerationConfig,
     cached_content |-> Absent, cachedContent |-> Absent, extra_body |-> NoExtraBody,
     tools |-> <<>>]

\* the getParamType call of normalizeToolCallArgs just made
NoToolCall == [toolName |-> <<>>, paramName |-> "", expectedType |-> "undefined"]

NoTransformCall ==
    [op |-> "none", context |-> Context(<<>>, ""), cache |-> EmptyCache,
     input |-> NoPayload, output |-> NoPayload]

NoTransform ==
    /\ signatureCache = EmptyCache
    /\ toolSchemaCache = EmptyToolCache
    /\ requestPayload = NoPayload
    /\ transformCall = NoTransformCall
    /\ toolCall = NoToolCall

\* ----------------------------------------------- credentials of the accounts
\* A refresh token, a project id and an access token are strings.  The access
\* token the OAuth server issues for a refresh token is that refresh token
\* behind the letter T; the empty string and undefined are <<>>.
NoAccess == <<>>

AccessTokenFor(refreshToken) == <<"T">> \o refreshToken

ACCESS_TOKEN_EXPIRY_BUFFER_MS == 60000

\* payload.expires_in * 1000 of a token payload
TokenLifetimeMs == 3600000

\* OAuthAuthDetails with the packed refresh string
OAuthAuthDetails(refresh, access, expires) ==
    [refresh |-> refresh, access |-> access, expires |-> expires]

accessTokenExpired(auth, t) ==
    \/ auth.access = NoAccess
    \/ auth.expires <= t + ACCESS_TOKEN_EXPIRY_BUFFER_MS

ManagedAccount(index, parts, access, expires, rateLimitResetTimes, tier) ==
    [index |-> index, parts |-> parts, access |-> access, expires |-> expires,
     rateLimitResetTimes |-> rateLimitResetTimes, tier |-> tier]

\* loadAccounts returned null
NoAccountStorage == [accounts |-> <<>>, activeIndex |-> 0]

\* mutant: every account starts with the live access token
AccountManager_AccessForAll(auth, storedAccounts) ==
    LET n == Len(storedAccounts.accounts)
        multiAccount == parseMultiAccountRefresh(auth.refresh)
        activeIndex == ConstructActiveIndex(storedAccounts.activeIndex, n)
    IN  IF n > 0
        THEN [accounts |-> [i \in 1..n |->
                    LET acc == storedAccounts.accounts[i]
                    IN  ManagedAccount(i - 1,
                            [refreshToken |-> acc.refreshToken,
                             projectId |-> acc.projectId,
                             managedProjectId |-> acc.managedProjectId],
                            auth.access, auth.expires,
                            acc.rateLimitResetTimes, acc.tier)],
              currentIndex |-> activeIndex,
              currentAccountIndex |-> activeIndex]
        ELSE [accounts |->
                    IF Len(multiAccount) > 0
                    THEN [i \in 1..Len(multiAccount) |->
                            ManagedAccount(i - 1, multiAccount[i], auth.access,
                                           auth.expires, NoLimits, "none")]
                    ELSE <<ManagedAccount(0, parseRefreshParts(auth.refresh),
                                          auth.access, auth.expires, NoLimits, "none")>>,
              currentIndex |-> 0,
              currentAccountIndex |-> 0]

\* new AccountManager(auth, storedAccounts): the accounts with their
\* credentials; an access token or expiry that is undefined is NoAccess or
\* Undefined, an account without a tier has the tier "none"
AccountManager(auth, storedAccounts) ==
    LET n == Len(storedAccounts.accounts)
        multiAccount == parseMultiAccountRefresh(auth.refresh)
        activeIndex == ConstructActiveIndex(storedAccounts.activeIndex, n)
    IN  IF n > 0
        THEN [accounts |-> [i \in 1..n |->
                    LET acc == storedAccounts.accounts[i]
                    IN  ManagedAccount(i - 1,
                            [refreshToken |-> acc.refreshToken,
                             projectId |-> acc.projectId,
                             managedProjectId |-> acc.managedProjectId],
                            IF i - 1 = activeIndex THEN auth.access ELSE NoAccess,
                            IF i - 1 = activeIndex THEN auth.expires ELSE Undefined,
                            acc.rateLimitResetTimes, acc.tier)],
              currentIndex |-> activeIndex,
              currentAccountIndex |-> activeIndex]
        ELSE [accounts |->
                    IF Len(multiAccount) > 0
                    THEN [i \in 1..Len(multiAccount) |->
                            ManagedAccount(i - 1, multiAccount[i],
                                           IF i = 1 THEN auth.access ELSE NoAccess,
                                           IF i = 1 THEN auth.expires ELSE Undefined,
                                           NoLimits, "none")]
                    ELSE <<ManagedAccount(0, parseRefreshParts(auth.refresh),
                                          auth.access, auth.expires, NoLimits, "none")>>,
              currentIndex |-> 0,
              currentAccountIndex |-> 0]

\* AccountManager.save: the document handed to saveAccounts
AccountStorage(accs, cai) ==
    [accounts |-> [i \in 1..Len(accs) |->
                      [refreshToken |-> accs[i].parts.refreshToken,
                       projectId |-> accs[i].parts.projectId,
                       managedProjectId |-> accs[i].parts.managedProjectId,
                       rateLimitResetTimes |-> accs[i].rateLimitResetTimes,
                       tier |-> accs[i].tier]],
     activeIndex |-> Max({0, cai})]

\* AccountManager.accountToAuth, with the credential of the account
accountToOAuth(account) ==
    OAuthAuthDetails(formatRefreshParts(account.parts), account.access,
                     IF account.expires = Undefined THEN 0 ELSE account.expires)

\* AccountManager.toAuthDetails (the account list is never empty)
toAuthDetails(accs, cai) ==
    LET current == IF getCurrentAccount(accs, cai) # Null
                   THEN accs[getCurrentAccount(accs, cai)] ELSE accs[1]
    IN  OAuthAuthDetails(
            formatMultiAccountRefresh([i \in 1..Len(accs) |-> accs[i].parts]),
            current.access,
            IF current.expires = Undefined THEN 0 ELSE current.expires)

\* AccountManager.updateAccount
updateAccount(accs, p, access, expires, parts) ==
    [accs EXCEPT ![p] = [@ EXCEPT !.access = access, !.expires = expires,
                                  !.parts = parts]]

\* refreshAccessToken, invalid_grant: the credential it hands to client.auth.set
clearedAuth(auth) ==
    LET parts == parseRefreshParts(auth.refresh)
    IN  OAuthAuthDetails(formatRefreshParts([refreshToken |-> <<>>,
                                             projectId |-> parts.projectId,
                                             managedProjectId |-> parts.managedProjectId]),
                         NoAccess, 0)

\* refreshAccessToken, token payload without a refresh_token: the credential
\* it returns
updatedAuth(auth, t) ==
    LET parts == parseRefreshParts(auth.refresh)
    IN  OAuthAuthDetails(formatRefreshParts(parts),
                         AccessTokenFor(parts.refreshToken),
                         t + TokenLifetimeMs)

\* ensureProjectContext, a managed project was found or onboarded: the
\* credential it hands to client.auth.set
managedAuth(auth, managedProjectId) ==
    LET parts == parseRefreshParts(auth.refresh)
    IN  OAuthAuthDetails(formatRefreshParts([refreshToken |-> parts.refreshToken,
                                             projectId |-> parts.projectId,
                                             managedProjectId |-> managedProjectId]),
                         auth.access, auth.expires)

\* the step of a dispatch just taken: its name, for the constructor the
\* credential and the stored accounts it was given, and the credential a
\* client.auth.set call of the step stored (<<>>: none)
CredentialCall(op, auth, stored, body) ==
    [op |-> op, auth |-> auth, stored |-> stored, authSet |-> body]

NoCredential == OAuthAuthDetails(<<>>, NoAccess, 0)

NoCredentialCall == CredentialCall("none", NoCredential, NoAccountStorage, <<>>)

\* no request was sent to the backend
NoRequest == [account |-> <<>>, accessToken |-> NoAccess]

\* no getNextForFamily call was made in a row yet, and no dispatch that
\* carries credentials runs
NoHistory ==
    /\ recent = <<>>
    /\ hostCredential = NoCredential
    /\ accountStore = NoAccountStorage
    /\ step = "idle"
    /\ inUse = Null
    /\ backendRequest = NoRequest
    /\ credentialCall = NoCredentialCall

\* the components modelled after the account store are idle
NoLater ==
    /\ NoCodec
    /\ NoTransform
    /\ NoHistory

\* no dispatch is running
NoDispatch ==
    /\ pc = "idle"
    /\ requestFamily = "claude"
    /\ usedAccount = Null
    /\ endpoint = 0
    /\ contacted = <<>>
    /\ rateLimitStateByAccount = [i \in 0..(Len(accounts) - 1) |-> 0]
    /\ sleeping = NotSleeping
    /\ abortSignal = FALSE
    /\ outcome = Pending
    /\ fetches = 0
    /\ saved = <<>>
    /\ unsavedMutations = {}

\* ------------------------------------------------------------------- Init
\* The call just made: its name, the family asked for, its integer argument,
\* what it returned, the current account before it, and how many reset times
\* it deleted.
Call(op, family, arg, ret, prev, cleared) ==
    [op |-> op, family |-> family, arg |-> arg, ret |-> ret, prev |-> prev,
     cleared |-> cleared]

NoCall == Call("none", "", Null, Null, Null, 0)

\* stored accounts carry the tier fetched at login; accounts decoded from the
\* packed refresh string carry none
TierLists ==
    UNION {[1..n -> {"free", "paid"}] \cup {[i \in 1..n |-> "none"]} : n \in 1..MaxAccounts}

\* the number of reset times set in the whole list
Marks(accs) ==
    Cardinality({<<p, f>> \in (1..Len(accs)) \X Families :
                    accs[p].rateLimitResetTimes[f] # Undefined})

Init ==
    \E tiers \in TierLists, activeIndex \in 0..MaxAccounts :
        /\ accounts = Construct(tiers)
        /\ currentAccountIndex = ConstructActiveIndex(activeIndex, Len(tiers))
        /\ currentIndex = ConstructActiveIndex(activeIndex, Len(tiers))
        /\ now = 0
        /\ last = NoCall
        /\ NoDispatch
        /\ NoRefresh
        /\ NoProject
        /\ NoStorage
        /\ NoLater

\* ------------------------------------------------- AccountManager operations
GetCurrentOrNextForFamily(family) ==
    \E r \in {getCurrentOrNextForFamily(accounts, currentIndex, currentAccountIndex,
                                        family, now)} :
        /\ r.currentIndex <= MaxCursor
        /\ accounts' = r.accounts
        /\ currentIndex' = r.currentIndex
        /\ currentAccountIndex' = r.currentAccountIndex
        /\ last' = Call("getCurrentOrNextForFamily", family, Null, r.account,
                        getCurrentAccount(accounts, currentAccountIndex),
                        Marks(accounts) - Marks(r.accounts))
        /\ UNCHANGED now
        /\ UNCHANGED <<dvars, rest>>

GetNextForFamily(family) ==
    \E r \in {getNextForFamily(accounts, currentIndex, family, now)} :
        /\ r.currentIndex <= MaxCursor
        /\ accounts' = r.accounts
        /\ currentIndex' = r.currentIndex
        /\ last' = Call("getNextForFamily", family, Null, r.account, Null, 0)
        /\ UNCHANGED <<currentAccountIndex, now>>
        /\ UNCHANGED <<dvars, rest>>

MarkRateLimited(account, retryAfterMs, family) ==
    /\ account \in 1..Len(accounts)
    /\ Marks(accounts) < MaxMarks
    /\ accounts' = markRateLimited(accounts, account, retryAfterMs, family, now)
    /\ last' = Call("markRateLimited", "", Null, Null, Null, 0)
    /\ UNCHANGED <<currentIndex, currentAccountIndex, now>>
    /\ UNCHANGED <<dvars, rest>>

MarkSwitched(account) ==
    /\ account \in 1..Len(accounts)
    /\ currentAccountIndex' = accounts[account].index
    /\ last' = Call("markSwitched", "", account, Null, Null, 0)
    /\ UNCHANGED <<accounts, currentIndex, now>>
    /\ UNCHANGED <<dvars, rest>>

AddAccount(tier) ==
    /\ Len(accounts) < MaxAccounts
    /\ accounts' = addAccount(accounts, tier)
    /\ last' = Call("addAccount", "", Null, Null, Null, 0)
    /\ UNCHANGED <<currentIndex, currentAccountIndex, now>>
    /\ UNCHANGED <<dvars, rest>>

\* returns true (1) when an account was removed, false (0) otherwise
RemoveAccount(index) ==
    /\ accounts' = removeAccount(accounts, index)
    /\ last' = Call("removeAccount", "", index,
                    IF index < 0 \/ index >= Len(accounts) THEN 0 ELSE 1, Null, 0)
    /\ UNCHANGED <<currentIndex, currentAccountIndex, now>>
    /\ UNCHANGED <<dvars, rest>>

GetMinWaitTimeForFamily(family) ==
    \E r \in {getMinWaitTimeForFamily(accounts, family, now)} :
        /\ accounts' = r.accounts
        /\ last' = Call("getMinWaitTimeForFamily", family, Null, r.wait, Null,
                        Marks(accounts) - Marks(r.accounts))
        /\ UNCHANGED <<currentIndex, currentAccountIndex, now>>
        /\ UNCHANGED <<dvars, rest>>

\* the clock advances between calls
Tick ==
    /\ now < MaxTime
    /\ now' = now + 1
    /\ last' = NoCall
    /\ UNCHANGED <<accounts, currentIndex, currentAccountIndex>>
    /\ UNCHANGED <<dvars, rest>>

\* selection and rate limits over a fixed account list
Next ==
    \/ \E f \in RequestFamilies : GetCurrentOrNextForFamily(f)
    \/ \E f \in RequestFamilies : GetNextForFamily(f)
    \/ \E a \in 1..MaxAccounts, ms \in RetryChoices, f \in RequestFamilies :
            MarkRateLimited(a, ms, f)
    \/ Tick

Spec == Init /\ [][Next]_vars

\* the wait computed from the rate limits
NextWait ==
    \/ \E f \in RequestFamilies : GetMinWaitTimeForFamily(f)
    \/ \E a \in 1..MaxAccounts, ms \in WaitRetryChoices, f \in RequestFamilies :
            MarkRateLimited(a, ms, f)
    \/ Tick

SpecWait == Init /\ [][NextWait]_vars

\* the account list edited while selection goes on
NextList ==
    \/ \E f \in RequestFamilies : GetCurrentOrNextForFamily(f)
    \/ \E f \in RequestFamilies : GetNextForFamily(f)
    \/ \E a \in 1..MaxAccounts : MarkSwitched(a)
    \/ \E tier \in Tiers : AddAccount(tier)
    \/ \E i \in (0 - 1)..MaxAccounts : RemoveAccount(i)

SpecList == Init /\ [][NextList]_vars

\* getNextForFamily called in a row while the rate limits and the clock change
\* in between: each call is recorded with the cursor it found, the cursor it
\* left, the pool it had to pick from and the account it returned
Turn(family, pool, cursor, after, account) ==
    [family |-> family, pool |-> pool, cursor |-> cursor, after |-> after,
     account |-> account]

GetNextInARow(family) ==
    \E r \in {getNextForFamily(accounts, currentIndex, family, now)} :
        /\ r.currentIndex <= MaxCursor
        /\ Len(recent) <= MaxCursor
        /\ accounts' = r.accounts
        /\ currentIndex' = r.currentIndex
        /\ last' = Call("getNextForFamily", family, Null, r.account, Null, 0)
        /\ recent' = Append(recent, Turn(family, EligiblePool(accounts, family, now),
                                         currentIndex, r.currentIndex, r.account))
        /\ UNCHANGED <<currentAccountIndex, now>>
        /\ UNCHANGED <<dvars, tvars, pvars, svars, cvars, xvars>>
        /\ UNCHANGED <<hostCredential, accountStore, step, inUse, backendRequest,
                       credentialCall>>

\* the pool of one family does not depend on the reset times of another
NextRound ==
    \/ \E f \in DispatchFamilies : GetNextInARow(f)
    \/ \E a \in 1..MaxAccounts, ms \in RetryChoices, f \in DispatchFamilies :
            MarkRateLimited(a, ms, f)
    \/ Tick

SpecRound == Init /\ [][NextRound]_vars

\* ------------------------------------------------------- the dispatch loop
\* the fetch function is called with a request; a dispatch touches the reset
\* times of the family of its request only, so one family stands for all
StartDispatch(tiers, activeIndex, f) ==
    /\ accounts = Construct(tiers)
    /\ currentAccountIndex = ConstructActiveIndex(activeIndex, Len(tiers))
    /\ currentIndex = ConstructActiveIndex(activeIndex, Len(tiers))
    /\ now = 0
    /\ last = NoCall
    /\ pc = "select"
    /\ requestFamily = f
    /\ usedAccount = Null
    /\ endpoint = 0
    /\ contacted = <<>>
    /\ rateLimitStateByAccount = [i \in 0..(Len(tiers) - 1) |-> 0]
    /\ sleeping = NotSleeping
    /\ abortSignal = FALSE
    /\ outcome = Pending
    /\ fetches = 0
    /\ saved = <<>>
    /\ unsavedMutations = {}

InitDispatch ==
    \E tiers \in TierLists, activeIndex \in 0..MaxAccounts, f \in DispatchFamilies :
        /\ StartDispatch(tiers, activeIndex, f)
        /\ NoRefresh
        /\ NoProject
        /\ NoStorage
        /\ NoLater

accountCount == Len(accounts)

\* await sleepWithBackoff(totalMs, abortSignal), after which the loop continues
BeginSleep(totalMs, kind) ==
    IF totalMs > 0
    THEN /\ pc' = "sleep"
         /\ sleeping' = [remainingMs |-> totalMs, stepIndex |-> 0, kind |-> kind]
    ELSE /\ pc' = "select"
         /\ sleeping' = NotSleeping

\* the head of the while loop: pick the account, wait when there is none,
\* record the switch
Select(saveOk) ==
    /\ pc = "select"
    /\ \E r \in {getCurrentOrNextForFamily(accounts, currentIndex, currentAccountIndex,
                                           requestFamily, now)} :
        LET previousAccount == getCurrentAccount(accounts, currentAccountIndex)
        IN  IF r.account = Null
            THEN \E w \in {getMinWaitTimeForFamily(r.accounts, requestFamily, now)} :
                    /\ accounts' = w.accounts
                    /\ currentIndex' = r.currentIndex
                    /\ currentAccountIndex' = r.currentAccountIndex
                    /\ BeginSleep(IF w.wait # 0 THEN w.wait ELSE AllLimitedDefaultWaitMs,
                                  "all-limited")
                    /\ usedAccount' = Null
                    /\ UNCHANGED <<saved, unsavedMutations>>
            ELSE LET isSwitch == \/ previousAccount = Null
                                 \/ accounts[previousAccount].index # r.accounts[r.account].index
                 IN  /\ accounts' = r.accounts
                     /\ currentIndex' = r.currentIndex
                     /\ currentAccountIndex' =
                            IF isSwitch THEN r.accounts[r.account].index
                            ELSE r.currentAccountIndex
                     /\ usedAccount' = r.account
                     /\ pc' = "token"
                     /\ saved' = IF isSwitch /\ saveOk
                                 THEN <<Storage(r.accounts, r.accounts[r.account].index)>>
                                 ELSE saved
                     /\ unsavedMutations' = IF isSwitch THEN {} ELSE unsavedMutations
                     /\ UNCHANGED sleeping
    /\ contacted' = <<>>
    /\ endpoint' = 0
    /\ UNCHANGED <<now, last, requestFamily, rateLimitStateByAccount, abortSignal,
                   outcome, fetches>>
    /\ UNCHANGED rest

\* the access token: still valid, refreshed, or the refresh failed and the
\* loop starts over
\* The OAuth server answers invalid_grant for a revoked refresh token and for
\* no other.
Token(expired, exchange, setOk, saveOk) ==
    /\ pc = "token"
    /\ IF expired
       THEN LET authRecord == accountToAuth(accounts, usedAccount)
                r == refreshAccessToken(authRecord, exchange, now)
                invalidGrant == exchange.kind = "error" /\ exchange.code = "invalid_grant"
            IN  /\ r.requested => (invalidGrant <=> authRecord.refresh \in revoked)
                /\ (r.requested /\ invalidGrant) =>
                        invalidGrants[authRecord.refresh] < MaxInvalidGrants
                /\ invalidGrants' =
                      IF r.requested /\ invalidGrant
                      THEN [invalidGrants EXCEPT ![authRecord.refresh] = @ + 1]
                      ELSE invalidGrants
                /\ hostAuth' = authSet(hostAuth, r.hostWrite, setOk)
                /\ pc' = IF r.result = <<>> THEN "select" ELSE "project"
                /\ saved' = IF r.result # <<>> /\ saveOk
                            THEN <<Storage(accounts, currentAccountIndex)>>
                            ELSE saved
                /\ unsavedMutations' = IF r.result # <<>> THEN {} ELSE unsavedMutations
       ELSE /\ pc' = "project"
            /\ UNCHANGED <<invalidGrants, hostAuth, saved, unsavedMutations>>
    /\ UNCHANGED <<accounts, currentIndex, currentAccountIndex, now, last,
                   requestFamily, usedAccount, endpoint, contacted,
                   rateLimitStateByAccount, sleeping, abortSignal, outcome, fetches>>
    /\ UNCHANGED <<revoked, refreshCall>>
    /\ UNCHANGED others

\* await resolveProjectContext(authRecord): a context, or it throws
Project(resolved) ==
    /\ pc = "project"
    /\ IF resolved
       THEN /\ pc' = "fetch"
            /\ UNCHANGED outcome
       ELSE /\ pc' = "done"
            /\ outcome' = Rejected("project", "project")
    /\ UNCHANGED <<accounts, currentIndex, currentAccountIndex, now, last,
                   requestFamily, usedAccount, endpoint, contacted,
                   rateLimitStateByAccount, sleeping, abortSignal, fetches, saved,
                   unsavedMutations>>
    /\ UNCHANGED rest

\* mutant: the account is retried in place whenever the response carries no
\* retry delay
HandleRateLimit_NoSwitch(serverRetryAfterMs, saveOk) ==
    LET d == getRateLimitDelay(rateLimitStateByAccount, accounts[usedAccount].index,
                               serverRetryAfterMs)
        retryAfterMs == d.delayMs
        marked == markRateLimited(accounts, usedAccount, retryAfterMs, requestFamily, now)
    IN  /\ rateLimitStateByAccount' = d.state
        /\ IF accountCount > 1 /\ serverRetryAfterMs = NoServerRetry
           THEN /\ BeginSleep(retryAfterMs, "retry-soon")
                /\ UNCHANGED <<accounts, saved, unsavedMutations>>
           ELSE /\ accounts' = marked
                /\ saved' = IF saveOk THEN <<Storage(marked, currentAccountIndex)>> ELSE saved
                /\ unsavedMutations' = {}
                /\ IF accountCount = 1
                   THEN BeginSleep(retryAfterMs, "rate-limit")
                   ELSE /\ pc' = "select"
                        /\ UNCHANGED sleeping
        /\ UNCHANGED <<endpoint, outcome, hostAuth>>

\* handleRateLimit: the response at the endpoint was a 429
HandleRateLimit(serverRetryAfterMs, saveOk) ==
    LET d == getRateLimitDelay(rateLimitStateByAccount, accounts[usedAccount].index,
                               serverRetryAfterMs)
        retryAfterMs == d.delayMs
        marked == markRateLimited(accounts, usedAccount, retryAfterMs, requestFamily, now)
    IN  /\ rateLimitStateByAccount' = d.state
        /\ IF accountCount = 1
           THEN /\ accounts' = marked
                /\ saved' = IF saveOk THEN <<Storage(marked, currentAccountIndex)>> ELSE saved
                /\ unsavedMutations' = {}
                /\ BeginSleep(
                      IF retryAfterMs # 0 THEN retryAfterMs
                      ELSE IF getMinWaitTimeForFamily(marked, requestFamily, now).wait # 0
                      THEN getMinWaitTimeForFamily(marked, requestFamily, now).wait
                      ELSE SingleAccountDefaultWaitMs,
                      "rate-limit")
           ELSE IF retryAfterMs <= switchThresholdMs
           THEN /\ BeginSleep(retryAfterMs, "retry-soon")
                /\ UNCHANGED <<accounts, saved, unsavedMutations>>
           ELSE /\ accounts' = marked
                /\ saved' = IF saveOk THEN <<Storage(marked, currentAccountIndex)>> ELSE saved
                /\ unsavedMutations' = {}
                /\ pc' = "select"
                /\ UNCHANGED sleeping
        /\ UNCHANGED <<endpoint, outcome, hostAuth>>

\* handleServerError: the last endpoint answered with a 5xx
HandleServerError(toastOk, saveOk) ==
    LET marked == markRateLimited(accounts, usedAccount, ServerErrorRetryAfterMs,
                                  requestFamily, now)
    IN  /\ accounts' = marked
        /\ IF accountCount > 1 /\ ~toastOk
           THEN /\ pc' = "done"
                /\ outcome' = Rejected("toast", "server-error")
                /\ unsavedMutations' = unsavedMutations \cup {"rate-limit"}
                /\ UNCHANGED <<sleeping, saved>>
           ELSE /\ saved' = IF saveOk THEN <<Storage(marked, currentAccountIndex)>> ELSE saved
                /\ unsavedMutations' = {}
                /\ IF accountCount = 1
                   THEN BeginSleep(ServerErrorRetryAfterMs, "rate-limit")
                   ELSE /\ pc' = "select"
                        /\ UNCHANGED sleeping
                /\ UNCHANGED outcome
        /\ UNCHANGED <<endpoint, rateLimitStateByAccount, hostAuth>>

\* the response is handed back: the 429 count of the account is forgotten and
\* the credentials are stored; when storing fails a toast is shown
Success(status, toastOk, setOk, saveOk) ==
    /\ rateLimitStateByAccount' =
          resetRateLimitState(rateLimitStateByAccount, accounts[usedAccount].index)
    /\ hostAuth' = authSet(hostAuth, "accounts", setOk)
    /\ saved' = IF setOk /\ saveOk
                THEN <<Storage(accounts, currentAccountIndex)>>
                ELSE saved
    /\ unsavedMutations' = IF setOk THEN {} ELSE unsavedMutations
    /\ outcome' = IF ~(setOk /\ saveOk) /\ ~toastOk
                  THEN Rejected("toast", "success")
                  ELSE Returned(status)
    /\ pc' = "done"
    /\ UNCHANGED <<accounts, endpoint, sleeping>>

\* one pass of the for loop of tryEndpointFallbacks: the fetch at endpoint i
\* and what follows from its outcome
TryEndpoint(status, serverRetryAfterMs, toastOk, setOk, saveOk) ==
    /\ pc = "fetch"
    /\ fetches < MaxFetches
    /\ abortSignal => status = NetworkError
    /\ status # 429 => serverRetryAfterMs = NoServerRetry
    /\ fetches' = fetches + 1
    /\ contacted' = Append(contacted,
                           [endpoint |-> CODE_ASSIST_ENDPOINT_FALLBACKS[endpoint + 1],
                            status |-> status,
                            retryAfterMs |-> serverRetryAfterMs])
    /\ LET c == classify(status, endpoint)
       IN  CASE c = "rate-limit" -> HandleRateLimit(serverRetryAfterMs, saveOk)
             [] c = "server-error" -> HandleServerError(toastOk, saveOk)
             [] c = "success" -> Success(status, toastOk, setOk, saveOk)
             [] c = "next" ->
                    /\ endpoint' = endpoint + 1
                    /\ UNCHANGED <<accounts, pc, rateLimitStateByAccount, sleeping,
                                   outcome, saved, unsavedMutations, hostAuth>>
             [] c = "throw" ->
                    /\ pc' = "done"
                    /\ outcome' = Rejected("network", "fetch")
                    /\ UNCHANGED <<accounts, endpoint, rateLimitStateByAccount,
                                   sleeping, saved, unsavedMutations, hostAuth>>
    /\ UNCHANGED <<currentIndex, currentAccountIndex, now, last, requestFamily,
                   usedAccount, abortSignal>>
    /\ UNCHANGED <<revoked, invalidGrants, refreshCall>>
    /\ UNCHANGED others

\* one sleep(waitMs, signal) of sleepWithBackoff: it rejects when the signal is
\* aborted, otherwise the chunk elapses
SleepStep ==
    /\ pc = "sleep"
    /\ IF abortSignal
       THEN /\ pc' = "done"
            /\ outcome' = Rejected("abort", sleeping.kind)
            /\ UNCHANGED <<now, sleeping>>
       ELSE LET stepMs == IF sleeping.stepIndex < Len(stepsMs)
                          THEN stepsMs[sleeping.stepIndex + 1]
                          ELSE stepsMs[Len(stepsMs)]
                waitMs == Min({sleeping.remainingMs, stepMs})
            IN  /\ now' = now + waitMs
                /\ IF sleeping.remainingMs - waitMs > 0
                   THEN /\ sleeping' = [sleeping EXCEPT !.remainingMs = @ - waitMs,
                                                        !.stepIndex = @ + 1]
                        /\ UNCHANGED pc
                   ELSE /\ sleeping' = NotSleeping
                        /\ pc' = "select"
                /\ UNCHANGED outcome
    /\ UNCHANGED <<accounts, currentIndex, currentAccountIndex, last, requestFamily,
                   usedAccount, endpoint, contacted, rateLimitStateByAccount,
                   abortSignal, fetches, saved, unsavedMutations>>
    /\ UNCHANGED rest

\* the caller aborts the request
Abort ==
    /\ pc \notin {"idle", "done"}
    /\ ~abortSignal
    /\ abortSignal' = TRUE
    /\ UNCHANGED <<accounts, currentIndex, currentAccountIndex, now, last, pc,
                   requestFamily, usedAccount, endpoint, contacted,
                   rateLimitStateByAccount, sleeping, outcome, fetches, saved,
                   unsavedMutations>>
    /\ UNCHANGED rest

NextDispatch ==
    \/ \E saveOk \in BOOLEAN : Select(saveOk)
    \/ \E expired, setOk, saveOk \in BOOLEAN, exchange \in DispatchExchanges :
            Token(expired, exchange, setOk, saveOk)
    \/ \E resolved \in BOOLEAN : Project(resolved)
    \/ \E status \in Responses \cup {NetworkError}, ms \in ServerRetryChoices,
          toastOk, setOk, saveOk \in BOOLEAN :
            TryEndpoint(status, ms, toastOk, setOk, saveOk)
    \/ SleepStep
    \/ Abort

SpecDispatch == InitDispatch /\ [][NextDispatch]_vars

\* ------------------------------------------------- consecutive 429 answers
\* rateLimitStateByAccount lives as long as the fetch function: a dispatch
\* finds the counts that earlier dispatches left.  A long run of 429 answers
\* reaches RATE_LIMIT_BACKOFF_MAX_MS.
LongRun429 == 12

Earlier429 == (0..MaxFetches) \cup {LongRun429}

\* a later call of the fetch function
ContinueDispatch(tiers, activeIndex, f, earlier) ==
    /\ accounts = Construct(tiers)
    /\ currentAccountIndex = ConstructActiveIndex(activeIndex, Len(tiers))
    /\ currentIndex = ConstructActiveIndex(activeIndex, Len(tiers))
    /\ now = 0
    /\ last = NoCall
    /\ pc = "select"
    /\ requestFamily = f
    /\ usedAccount = Null
    /\ endpoint = 0
    /\ contacted = <<>>
    /\ rateLimitStateByAccount = earlier
    /\ sleeping = NotSleeping
    /\ abortSignal = FALSE
    /\ outcome = Pending
    /\ fetches = 0
    /\ saved = <<>>
    /\ unsavedMutations = {}

InitBackoff ==
    \E n \in 1..MaxAccounts, f \in DispatchFamilies :
        \E earlier \in [0..(n - 1) -> Earlier429] :
            /\ ContinueDispatch([i \in 1..n |-> "none"], 0, f, earlier)
            /\ NoRefresh
            /\ NoProject
            /\ NoStorage
            /\ NoLater

\* the backend answers 200 or 429, with or without a retry delay; tokens are
\* valid and the project is known
NextBackoff ==
    \/ Select(TRUE)
    \/ \E exchange \in DispatchExchanges : Token(FALSE, exchange, TRUE, TRUE)
    \/ Project(TRUE)
    \/ \E status \in {200, 429}, ms \in ServerRetryChoices, saveOk \in BOOLEAN :
            TryEndpoint(status, ms, TRUE, TRUE, saveOk)
    \/ SleepStep

SpecBackoff == InitBackoff /\ [][NextBackoff]_vars

\* ------------------------------------------------------------ token refresh
\* a dispatch for accounts of which some have a revoked refresh token
InitToken ==
    \E tiers \in TierLists, activeIndex \in 0..MaxAccounts, f \in DispatchFamilies,
       rv \in SUBSET (1..MaxAccounts) :
        /\ rv \subseteq 1..Len(tiers)
        /\ StartDispatch(tiers, activeIndex, f)
        /\ revoked = rv
        /\ hostAuth = "login"
        /\ invalidGrants = [r \in 1..Len(tiers) |-> 0]
        /\ refreshCall = NoRefreshCall
        /\ NoProject
        /\ NoStorage
        /\ NoLater

\* the dispatch loop against a backend that answers 200 or 429
NextToken ==
    \/ \E saveOk \in BOOLEAN : Select(saveOk)
    \/ \E expired, setOk, saveOk \in BOOLEAN, exchange \in DispatchExchanges :
            Token(expired, exchange, setOk, saveOk)
    \/ \E resolved \in BOOLEAN : Project(resolved)
    \/ \E status \in {200, 429}, ms \in ServerRetryChoices,
          toastOk, setOk, saveOk \in BOOLEAN :
            TryEndpoint(status, ms, toastOk, setOk, saveOk)
    \/ SleepStep

SpecToken == InitToken /\ [][NextToken]_vars

\* refreshAccessToken called on its own, as the tests call it
RefreshAccessToken(auth, exchange, setOk) ==
    \E r \in {refreshAccessToken(auth, exchange, now)} :
        /\ hostAuth' = authSet(hostAuth, r.hostWrite, setOk)
        /\ refreshCall' = [auth |-> auth, exchange |-> exchange, result |-> r.result,
                           at |-> now, hostBefore |-> hostAuth, savedBefore |-> saved]
        /\ UNCHANGED <<accounts, currentIndex, currentAccountIndex, now, last>>
        /\ UNCHANGED <<dvars, revoked, invalidGrants>>
        /\ UNCHANGED others

\* the credentials the calls are made with
Auths == {Auth(r, a, e) : r \in 0..MaxAccounts, a \in {0, 5}, e \in {0}}

NextRefresh ==
    \/ \E auth \in Auths, exchange \in Exchanges, setOk \in BOOLEAN :
            RefreshAccessToken(auth, exchange, setOk)
    \/ Tick

SpecRefresh == Init /\ [][NextRefresh]_vars

\* ---------------------------------------------------- project context cache
\* ensureProjectContext(auth): without access token no cache is used; a cached
\* result or a pending promise is returned; otherwise resolveContext() starts
\* and its promise is stored as pending
EnsureProjectContext(key, hasAccess) ==
    /\ IF ~hasAccess
       THEN /\ projectCall' = [key |-> key, kind |-> "no-access", promise |-> NoEntry]
            /\ UNCHANGED <<projectContextPendingCache, resolving, resolutionCount>>
       ELSE IF projectContextResultCache[key] # NoEntry
       THEN /\ projectCall' = [key |-> key, kind |-> "cached",
                               promise |-> projectContextResultCache[key]]
            /\ UNCHANGED <<projectContextPendingCache, resolving, resolutionCount>>
       ELSE IF projectContextPendingCache[key] # NoEntry
       THEN /\ projectCall' = [key |-> key, kind |-> "shared",
                               promise |-> projectContextPendingCache[key]]
            /\ UNCHANGED <<projectContextPendingCache, resolving, resolutionCount>>
       ELSE /\ resolutionCount < MaxResolutions
            /\ resolutionCount' = resolutionCount + 1
            /\ resolving' = resolving \cup {[id |-> resolutionCount + 1, key |-> key]}
            /\ projectContextPendingCache' =
                  [projectContextPendingCache EXCEPT ![key] = resolutionCount + 1]
            /\ projectCall' = [key |-> key, kind |-> "started",
                               promise |-> resolutionCount + 1]
    /\ UNCHANGED projectContextResultCache
    /\ UNCHANGED <<accounts, currentIndex, currentAccountIndex, now, last>>
    /\ UNCHANGED <<dvars, tvars, svars, later>>

\* resolveContext() settles: the then and catch handlers of the promise.  A
\* refresh string with a project id resolves without a network call and
\* cannot fail.
SettleResolution(r, ok) ==
    /\ r \in resolving
    /\ r.key < 0 => ok
    /\ resolving' = resolving \ {r}
    /\ projectContextPendingCache' =
          [projectContextPendingCache EXCEPT ![r.key] = NoEntry]
    /\ projectContextResultCache' =
          IF ok
          THEN [k \in CacheKeys |->
                  IF k = ResolvedKey(r.key) THEN r.id
                  ELSE IF k = r.key THEN NoEntry
                  ELSE projectContextResultCache[k]]
          ELSE projectContextResultCache
    /\ projectCall' = NoProjectCall
    /\ UNCHANGED resolutionCount
    /\ UNCHANGED <<accounts, currentIndex, currentAccountIndex, now, last>>
    /\ UNCHANGED <<dvars, tvars, svars, later>>

\* invalidateProjectContextCache(refresh), as refreshAccessToken calls it
InvalidateProjectContextCache(refresh) ==
    /\ projectContextPendingCache' =
          invalidateProjectContextCache(projectContextPendingCache, refresh)
    /\ projectContextResultCache' =
          invalidateProjectContextCache(projectContextResultCache, refresh)
    /\ projectCall' = NoProjectCall
    /\ UNCHANGED <<resolving, resolutionCount>>
    /\ UNCHANGED <<accounts, currentIndex, currentAccountIndex, now, last>>
    /\ UNCHANGED <<dvars, tvars, svars, later>>

NextProject ==
    \/ \E key \in CacheKeys, hasAccess \in BOOLEAN : EnsureProjectContext(key, hasAccess)
    \/ \E r \in resolving, ok \in BOOLEAN : SettleResolution(r, ok)
    \/ \E refresh \in CacheKeys \cup {NoEntry} : InvalidateProjectContextCache(refresh)

SpecProject == Init /\ [][NextProject]_vars

\* dispatches that resolve the project of their account while no token is
\* rotated and nothing is invalidated
\* getCacheKey(accountToAuth(account)): the accounts with an odd number have
\* no project id, the others have one; the parts of an account do not change
AccountKey(index) == IF index % 2 = 1 THEN index ELSE 0 - index

NextResolved ==
    \/ \E index \in 1..MaxAccounts, hasAccess \in BOOLEAN :
            EnsureProjectContext(AccountKey(index), hasAccess)
    \/ \E r \in resolving, ok \in BOOLEAN : SettleResolution(r, ok)

SpecResolved == Init /\ [][NextResolved]_vars

\* ----------------------------------------------------------- backoff waits
\* the delays a 429 response asks for, up to RATE_LIMIT_SERVER_RETRY_MAX_MS
SleepChoices == {1000, 5000, 60000, 100000, 200000}

\* a dispatch with one account that has just handled a 429 asking for
\* totalMs: the account is marked and sleepWithBackoff(totalMs) begins
InitSleep ==
    \E tier \in Tiers, totalMs \in SleepChoices, f \in DispatchFamilies :
        /\ accounts = markRateLimited(Construct(<<tier>>), 1, totalMs, f, 0)
        /\ currentAccountIndex = 0
        /\ currentIndex = 0
        /\ now = 0
        /\ last = NoCall
        /\ pc = "sleep"
        /\ requestFamily = f
        /\ usedAccount = 1
        /\ endpoint = 0
        /\ contacted = <<[endpoint |-> CODE_ASSIST_ENDPOINT_FALLBACKS[1], status |-> 429,
                           retryAfterMs |-> totalMs]>>
        /\ rateLimitStateByAccount = [i \in {0} |-> 1]
        /\ sleeping = [remainingMs |-> totalMs, stepIndex |-> 0, kind |-> "rate-limit"]
        /\ abortSignal = FALSE
        /\ outcome = Pending
        /\ fetches = 1
        /\ saved = <<>>
        /\ unsavedMutations = {}
        /\ NoRefresh
        /\ NoProject
        /\ NoStorage
        /\ NoLater

NextSleep ==
    \/ SleepStep
    \/ Abort

SpecSleep == InitSleep /\ [][NextSleep]_vars

\* ------------------------------------------------------ the account store
\* the reset times a stored document may hold
StoredTimes == {5, 7}

V1Accounts ==
    [isRateLimited : BOOLEAN, rateLimitResetTime : {Undefined, 0} \cup StoredTimes]

V2Accounts ==
    [rateLimitResetTimes : {NoObject} \cup [V2Keys -> {Undefined} \cup StoredTimes]]

V3Accounts ==
    [tier : Tiers, rateLimitResetTimes : {NoObject} \cup [Families -> {Undefined, 5}]]

\* the account list of a document: the refresh token of the i-th account is i
WithTokens(list) ==
    [i \in 1..Len(list) |-> [refreshToken |-> i] @@ list[i]]

\* the account lists of the documents of a version; a document of an unknown
\* version is not read further
AccountLists(version, n) ==
    IF version = 1 THEN [1..n -> V1Accounts]
    ELSE IF version = 2 THEN [1..n -> V2Accounts]
    ELSE IF version = 3 THEN [1..n -> V3Accounts]
    ELSE IF n = 0 THEN {<<>>} ELSE {}

\* what the file may be: missing, no JSON, a document without an account
\* array, or a document of version 1, 2 or 3, of an unknown version (4) or
\* without version (Undefined), whose activeIndex may be no index of the list
\* (Undefined: not a number)
Files(version, n) ==
    IF version = 0
    THEN IF n = 0
         THEN {NoDocument, InvalidJson, NotArrayDocument(1), NotArrayDocument(3)}
         ELSE {}
    ELSE {[version |-> version, accounts |-> WithTokens(list), activeIndex |-> activeIndex] :
             list \in AccountLists(version, n), activeIndex \in Undefined..n}

\* no manager has been constructed
InitStorage ==
    \E version \in Undefined..4, n \in 0..MaxAccounts :
        \E file \in Files(version, n) :
            /\ accounts = <<>>
            /\ currentAccountIndex = 0
            /\ currentIndex = 0
            /\ now = 0
            /\ last = NoCall
            /\ NoDispatch
            /\ NoRefresh
            /\ NoProject
            /\ storageFile = file
            /\ managers = [d \in Dispatches |-> NoManager]
            /\ loadCall = NoLoadCall
            /\ NoLater

LoadAccounts(writeOk) ==
    LET loaded == loadAccounts(storageFile, writeOk)
    IN  /\ ~loadCall.called
        /\ loadCall' = [input |-> storageFile, result |-> loaded.result,
                        saveCalls |-> loaded.saveCalls, called |-> TRUE,
                        threw |-> loaded.threw]
        /\ storageFile' = loaded.file
        /\ UNCHANGED managers
        /\ UNCHANGED <<accounts, currentIndex, currentAccountIndex, now, last>>
        /\ UNCHANGED <<dvars, tvars, pvars, later>>

\* the caller takes the result; the next call reads the file as it is now
LoadReturned ==
    /\ loadCall.called
    /\ loadCall' = NoLoadCall
    /\ UNCHANGED <<storageFile, managers>>
    /\ UNCHANGED <<accounts, currentIndex, currentAccountIndex, now, last>>
    /\ UNCHANGED <<dvars, tvars, pvars, later>>

NextStorage ==
    \/ \E writeOk \in BOOLEAN : LoadAccounts(writeOk)
    \/ LoadReturned

SpecStorage == InitStorage /\ [][NextStorage]_vars

\* ---------------------------------------------------- concurrent dispatches
\* the login flow has saved the accounts; no dispatch is running
InitConcurrent ==
    \E tiers \in TierLists :
        /\ accounts = <<>>
        /\ currentAccountIndex = 0
        /\ currentIndex = 0
        /\ now = 0
        /\ last = NoCall
        /\ NoDispatch
        /\ NoRefresh
        /\ NoProject
        /\ storageFile = LoginDocument(tiers)
        /\ managers = [d \in Dispatches |-> NoManager]
        /\ loadCall = NoLoadCall
        /\ NoLater

\* a call of the fetch function: loadAccounts(), new AccountManager(...)
DispatchStart(d) ==
    /\ managers[d] = NoManager
    /\ LET loaded == loadAccounts(storageFile, TRUE)
       IN  /\ loaded.result # NoDocument
           /\ managers' = [managers EXCEPT ![d] = ConstructStored(loaded.result)]
           /\ storageFile' = loaded.file
    /\ UNCHANGED loadCall
    /\ UNCHANGED <<accounts, currentIndex, currentAccountIndex, now, last>>
    /\ UNCHANGED <<dvars, tvars, pvars, later>>

\* one pass of the loop of dispatch d that ends in handleRateLimit or
\* handleServerError: the account is selected and marked, save() builds its
\* document and awaits the file system
DispatchMark(d, retryAfterMs, family) ==
    LET mgr == managers[d]
        sel == getCurrentOrNextForFamily(mgr.accounts, mgr.currentIndex,
                                         mgr.currentAccountIndex, family, now)
        marked == markRateLimited(sel.accounts, sel.account, retryAfterMs, family, now)
    IN  /\ mgr # NoManager
        /\ mgr.writing = <<>>
        /\ sel.account # Null
        /\ managers' = [managers EXCEPT ![d] =
              [accounts |-> marked,
               currentIndex |-> sel.currentIndex,
               currentAccountIndex |-> sel.currentAccountIndex,
               writing |-> <<StorageDocument(marked, sel.currentAccountIndex)>>]]
        /\ UNCHANGED <<storageFile, loadCall>>
        /\ UNCHANGED <<accounts, currentIndex, currentAccountIndex, now, last>>
        /\ UNCHANGED <<dvars, tvars, pvars, later>>

\* saveAccounts of dispatch d: fs.writeFile replaces the file
DispatchWrite(d) ==
    /\ managers[d].writing # <<>>
    /\ storageFile' = managers[d].writing[1]
    /\ managers' = [managers EXCEPT ![d].writing = <<>>]
    /\ UNCHANGED loadCall
    /\ UNCHANGED <<accounts, currentIndex, currentAccountIndex, now, last>>
    /\ UNCHANGED <<dvars, tvars, pvars, later>>

\* the dispatch returns; its manager is dropped
DispatchEnd(d) ==
    /\ managers[d] # NoManager
    /\ managers[d].writing = <<>>
    /\ managers' = [managers EXCEPT ![d] = NoManager]
    /\ UNCHANGED <<storageFile, loadCall>>
    /\ UNCHANGED <<accounts, currentIndex, currentAccountIndex, now, last>>
    /\ UNCHANGED <<dvars, tvars, pvars, later>>

NextConcurrent ==
    \/ \E d \in Dispatches : DispatchStart(d)
    \/ \E d \in Dispatches, retryAfterMs \in RetryChoices, family \in RequestFamilies :
          DispatchMark(d, retryAfterMs, family)
    \/ \E d \in Dispatches : DispatchWrite(d)
    \/ \E d \in Dispatches : DispatchEnd(d)

SpecConcurrent == InitConcurrent /\ [][NextConcurrent]_vars

\* ----------------------------------------------------- refresh string codec
\* the characters of a refresh string: letters of a token or of a project id,
\* and the separator character
Chars == {"a", "b", "|"}

\* nothing else has been constructed; some string is handed to the codec
InitCodec ==
    \E n \in 0..MaxLen :
        \E x \in [1..n -> Chars] :
            /\ accounts = <<>>
            /\ currentAccountIndex = 0
            /\ currentIndex = 0
            /\ now = 0
            /\ last = NoCall
            /\ NoDispatch
            /\ NoRefresh
            /\ NoProject
            /\ NoStorage
            /\ refreshString = x
            /\ codecCall = NoCodecCall
            /\ NoTransform
            /\ NoHistory

\* formatRefreshParts(parseRefreshParts(refreshString))
ParseFormat ==
    /\ codecCall = NoCodecCall
    /\ codecCall' = [op |-> "single",
                     parts |-> <<parseRefreshParts(refreshString)>>,
                     output |-> formatRefreshParts(parseRefreshParts(refreshString))]
    /\ UNCHANGED refreshString
    /\ UNCHANGED <<accounts, currentIndex, currentAccountIndex, now, last>>
    /\ UNCHANGED <<dvars, tvars, pvars, svars, xvars, hvars>>

\* formatMultiAccountRefresh(parseMultiAccountRefresh(refreshString))
ParseFormatMulti ==
    /\ codecCall = NoCodecCall
    /\ codecCall' = [op |-> "multi",
                     parts |-> parseMultiAccountRefresh(refreshString),
                     output |-> formatMultiAccountRefresh(
                                    parseMultiAccountRefresh(refreshString))]
    /\ UNCHANGED refreshString
    /\ UNCHANGED <<accounts, currentIndex, currentAccountIndex, now, last>>
    /\ UNCHANGED <<dvars, tvars, pvars, svars, xvars, hvars>>

\* the parts of an account as the plugin holds them: a refresh token without
\* separator, with or without a project id and a managed project id
AccountParts ==
    [refreshToken : {<<"a">>, <<"b">>},
     projectId : {UndefinedPart, <<"p">>},
     managedProjectId : {UndefinedPart, <<"m">>}]

\* parseMultiAccountRefresh(formatMultiAccountRefresh(parts)): the credential
\* is packed for the host store and unpacked by the next constructor
FormatParseMulti(parts) ==
    /\ codecCall = NoCodecCall
    /\ refreshString = <<>>
    /\ refreshString' = formatMultiAccountRefresh(parts)
    /\ codecCall' = [op |-> "pack",
                     parts |-> parts,
                     output |-> parseMultiAccountRefresh(formatMultiAccountRefresh(parts))]
    /\ UNCHANGED <<accounts, currentIndex, currentAccountIndex, now, last>>
    /\ UNCHANGED <<dvars, tvars, pvars, svars, xvars, hvars>>

NextCodec ==
    \/ ParseFormat
    \/ ParseFormatMulti
    \/ \E n \in 1..MaxAccounts : \E parts \in [1..n -> AccountParts] : FormatParseMulti(parts)

SpecCodec == InitCodec /\ [][NextCodec]_vars

\* ------------------------------------------------------ thinking signatures
\* getSessionId(): the session id of the process, and that of another one
SessionIds == {"-1", "-2"}

ThoughtT == <<"I am thinking">>

ThoughtU == <<"Let me check">>

\* the thinking parts a host sends back in a model turn: without a signature,
\* with a signature of 36, of 50 and of 60 characters, with a marker line
\* that the host added to the thought text, and the thinking of a Claude turn
ModelParts ==
    { ThoughtPart(ThoughtT, NoSignature),
      ThoughtPart(ThoughtT, [name |-> "short", length |-> 36]),
      ThoughtPart(ThoughtT, [name |-> "fifty", length |-> 50]),
      ThoughtPart(ThoughtT, ProviderSignature("gemini-pro")),
      ThoughtPart(<<"think: plan">> \o ThoughtT, NoSignature),
      ThoughtPart(ThoughtU, ProviderSignature("claude")),
      TextPart(<<"2 + 2 = 4">>, NoSignature),
      FunctionCallPart(NoId, NoSignature) }

\* a user turn that quotes a tool transcript and carries a signature along
UserParts ==
    { TextPart(<<"Tool: read", "What is 2+2?">>, ProviderSignature("gemini-pro")) }

\* nothing has been constructed but the caches of the process, both empty, and
\* the request body of the host
InitRequest(payload) ==
    /\ accounts = <<>>
    /\ currentAccountIndex = 0
    /\ currentIndex = 0
    /\ now = 0
    /\ last = NoCall
    /\ NoDispatch
    /\ NoRefresh
    /\ NoProject
    /\ NoStorage
    /\ NoCodec
    /\ NoHistory
    /\ signatureCache = EmptyCache
    /\ toolSchemaCache = EmptyToolCache
    /\ requestPayload = payload
    /\ transformCall = NoTransformCall
    /\ toolCall = NoToolCall

\* the host holds a conversation of a user turn and a model turn
InitThinking ==
    \E user \in UserParts, n \in 1..MaxParts :
        \E model \in [1..n -> ModelParts] :
            InitRequest([NoPayload EXCEPT
                            !.contents = <<[role |-> "user", parts |-> <<user>>],
                                           [role |-> "model", parts |-> model]>>])

\* transformAntigravityResponse: a response of the family carries the thought
\* text with the signature of its backend; the call just made is no longer a
\* transformer call
ResponseCaches(family, sessionId) ==
    /\ Cardinality(DOMAIN signatureCache) < MaxEntries
    /\ signatureCache' = cacheSignature(signatureCache, family, sessionId, ThoughtT,
                                        ProviderSignature(family))
    /\ transformCall' = NoTransformCall
    /\ UNCHANGED <<toolSchemaCache, requestPayload, toolCall>>
    /\ UNCHANGED <<accounts, currentIndex, currentAccountIndex, now, last>>
    /\ UNCHANGED <<dvars, tvars, pvars, svars, cvars, hvars>>

\* transformClaudeRequest(context, requestPayload) for a Claude model
TransformClaude(model, sessionId) ==
    LET context == Context(model, sessionId)
        result == transformClaudeRequest(context, requestPayload, signatureCache)
    IN  /\ transformCall' = [op |-> "claude", context |-> context,
                             cache |-> signatureCache,
                             input |-> requestPayload, output |-> result.request]
        /\ signatureCache' = result.cache
        /\ toolSchemaCache' = cacheToolSchemas(toolSchemaCache, requestPayload.tools)
        /\ UNCHANGED <<requestPayload, toolCall>>
        /\ UNCHANGED <<accounts, currentIndex, currentAccountIndex, now, last>>
        /\ UNCHANGED <<dvars, tvars, pvars, svars, cvars, hvars>>

\* transformGeminiRequest(context, requestPayload) for a Gemini model
TransformGemini(model, sessionId) ==
    LET context == Context(model, sessionId)
    IN  /\ transformCall' = [op |-> "gemini", context |-> context,
                             cache |-> signatureCache,
                             input |-> requestPayload,
                             output |-> transformGeminiRequest(context, requestPayload,
                                                               signatureCache)]
        /\ toolSchemaCache' = cacheToolSchemas(toolSchemaCache,
                                               sanitizeToolNames(requestPayload.tools))
        /\ UNCHANGED <<signatureCache, requestPayload, toolCall>>
        /\ UNCHANGED <<accounts, currentIndex, currentAccountIndex, now, last>>
        /\ UNCHANGED <<dvars, tvars, pvars, svars, cvars, hvars>>

NextThinking ==
    \/ \E family \in Families, sessionId \in SessionIds : ResponseCaches(family, sessionId)
    \/ TransformClaude(ClaudeModel, "-1")
    \/ \E model \in GeminiModels : TransformGemini(model, "-1")

SpecThinking == InitThinking /\ [][NextThinking]_vars

\* ----------------------------------------------------------- token budgets
\* the thinking budgets and the output-token limits a host asks for
BudgetChoices == {Undefined, 0, 1024, 32000, 64000, 100000}

OutputTokenChoices == {Undefined, 0, 1024, 32000, 64000, 128000}

GenerationConfigs ==
    {NoGenerationConfig}
    \cup { [defined |-> TRUE, thinkingConfig |-> thinkingConfig,
            maxOutputTokens |-> maxOutputTokens, max_output_tokens |-> Undefined] :
           thinkingConfig \in {NoThinkingConfig, ThinkingConfig(Undefined, "false")}
                              \cup {ThinkingConfig(budget, "undefined") :
                                       budget \in BudgetChoices \ {Undefined}},
           maxOutputTokens \in OutputTokenChoices }
    \cup { [defined |-> TRUE, thinkingConfig |-> ThinkingConfig(budget, "undefined"),
            maxOutputTokens |-> Undefined, max_output_tokens |-> max_output_tokens] :
           budget \in {1024, 64000}, max_output_tokens \in {1024, 128000} }

\* the host sends a request with some generation config
InitBudget ==
    \E generationConfig \in GenerationConfigs :
        InitRequest([NoPayload EXCEPT !.generationConfig = generationConfig])

NextBudget ==
    \/ \E model \in ClaudeModels : TransformClaude(model, "-1")
    \/ \E model \in GeminiModels : TransformGemini(model, "-1")

SpecBudget == InitBudget /\ [][NextBudget]_vars

\* ---------------------------------------------------------- cached content
CachedContentChoices == {Absent, "", "cachedContents/1", "cachedContents/2"}

ExtraBodies ==
    {NoExtraBody}
    \cup { [defined |-> TRUE, cached_content |-> snake, cachedContent |-> camel,
            other |-> other] :
           snake \in {Absent, "cachedContents/1"},
           camel \in {Absent, "cachedContents/2"},
           other \in BOOLEAN }

\* the host sends a request with cached content references in some places
InitCached ==
    \E snake \in CachedContentChoices, camel \in CachedContentChoices,
       extra \in ExtraBodies :
        InitRequest([NoPayload EXCEPT !.cached_content = snake,
                                      !.cachedContent = camel,
                                      !.extra_body = extra])

SpecCached == InitCached /\ [][NextBudget]_vars

\* -------------------------------------------------------------- tool names
ToolNames == {<<"2", "1", "s", "t">>, <<"r", "e", "a", "d">>, <<"t", "_", "2", "1", "s", "t">>}

\* the parameter schemas of the tools: a string and an array, an object and a
\* schema without type, and one parameter only
ToolProperties ==
    { NoProperties,
      Properties([p \in ParamNames |-> IF p = "code" THEN "string" ELSE "array"]),
      Properties([p \in ParamNames |-> IF p = "code" THEN "object" ELSE ""]),
      Properties([p \in ParamNames |-> IF p = "code" THEN "string" ELSE "undefined"]) }

\* the host sends a request that declares tools of different names
InitTools ==
    \E n \in 1..MaxTools :
        \E names \in [1..n -> ToolNames], properties \in [1..n -> ToolProperties] :
            /\ \A i, j \in 1..n : i # j => names[i] # names[j]
            /\ InitRequest([NoPayload EXCEPT
                               !.tools = [i \in 1..n |->
                                             FunctionDeclaration(names[i], properties[i])]])

\* normalizeToolCallArgs(args, toolName) of a response: the lookup of the type
\* of one argument of a function call
NormalizeToolCallArgs(toolName, paramName) ==
    /\ toolCall' = [toolName |-> toolName, paramName |-> paramName,
                    expectedType |-> getParamType(toolSchemaCache, toolName, paramName)]
    /\ UNCHANGED <<signatureCache, toolSchemaCache, requestPayload, transformCall>>
    /\ UNCHANGED <<accounts, currentIndex, currentAccountIndex, now, last>>
    /\ UNCHANGED <<dvars, tvars, pvars, svars, cvars, hvars>>

\* the model calls a tool by a name the request gave it
NextTools ==
    \/ \E model \in GeminiModels : TransformGemini(model, "-1")
    \/ /\ transformCall.op = "gemini"
       /\ \E i \in 1..Len(transformCall.output.tools), paramName \in ParamNames :
              NormalizeToolCallArgs(transformCall.output.tools[i].name, paramName)

SpecTools == InitTools /\ [][NextTools]_vars

\* ------------------------------------------------ function calls and responses
\* an id the host gave to the k-th part of a turn
GivenId(k) == <<"given", "id", k>>

\* the function calls of a model turn of n parts: each call names a tool and
\* has the id of its position or none
FunctionCalls(n) ==
    {calls \in [1..n -> {FunctionPart("functionCall", name, id) :
                            name \in FunctionNames,
                            id \in {NoId} \cup {GivenId(k) : k \in 1..n}}] :
        \A k \in 1..n : calls[k].id \in {NoId, GivenId(k)}}

\* the function responses of the user turn that follows: no tool answers more
\* often than it was called
FunctionResponses(calls, m) ==
    {responses \in [1..m -> {FunctionPart("functionResponse", name, id) :
                                name \in FunctionNames, id \in {NoId, GivenId(1)}}] :
        \A name \in FunctionNames :
            Cardinality({k \in 1..m : responses[k].name = name})
                <= Cardinality({k \in 1..Len(calls) : calls[k].name = name})}

\* the host holds a conversation in which the model called tools in one turn
\* and the user turn answers them, and then perhaps a second round with one
\* call of read and its answer
InitPairing ==
    \E n \in 1..MaxParts, m \in 0..MaxParts, again \in BOOLEAN :
        \E calls \in FunctionCalls(n) :
            \E responses \in FunctionResponses(calls, m) :
                InitRequest([NoPayload EXCEPT
                    !.contents =
                        <<[role |-> "model", parts |-> calls],
                          [role |-> "user", parts |-> responses]>>
                        \o IF again
                           THEN <<[role |-> "model",
                                   parts |-> <<FunctionPart("functionCall", "read", NoId)>>],
                                  [role |-> "user",
                                   parts |-> <<FunctionPart("functionResponse", "read",
                                                            NoId)>>]>>
                           ELSE <<>>])

NextPairing ==
    \E sessionId \in SessionIds : TransformClaude(ClaudeModel, sessionId)

SpecPairing == InitPairing /\ [][NextPairing]_vars

\* --------------------------------------- dispatches that carry credentials
\* The refresh tokens of the login, by position.
RefreshTokens == <<<<"a">>, <<"b">>, <<"c">>>>

\* a 429 whose delay is above the switch threshold
LongRetryAfterMs == 60000

\* the variables of the other parts, which a dispatch step leaves alone
credentialFrame ==
    <<last, dvars, tvars, pvars, svars, cvars, xvars, recent>>

\* After the login: the accounts file lists the accounts, the first is the
\* active one, and the host credential packs the same accounts with the access
\* token of the first, which may have expired since.
InitCredential ==
    \E n \in 1..MaxAccounts, projectId \in {UndefinedPart, <<"p">>}, live \in BOOLEAN :
        /\ accountStore =
              [accounts |-> [i \in 1..n |->
                                [refreshToken |-> RefreshTokens[i],
                                 projectId |-> projectId,
                                 managedProjectId |-> UndefinedPart,
                                 rateLimitResetTimes |-> NoLimits,
                                 tier |-> "free"]],
               activeIndex |-> 0]
        /\ hostCredential =
              OAuthAuthDetails(
                  formatMultiAccountRefresh(
                      [i \in 1..n |-> [refreshToken |-> RefreshTokens[i],
                                       projectId |-> projectId,
                                       managedProjectId |-> UndefinedPart]]),
                  IF live THEN AccessTokenFor(RefreshTokens[1]) ELSE NoAccess,
                  IF live THEN TokenLifetimeMs ELSE 0)
        /\ accounts = <<>>
        /\ currentIndex = 0
        /\ currentAccountIndex = 0 - 1
        /\ now = 0
        /\ last = NoCall
        /\ NoDispatch
        /\ NoRefresh
        /\ NoProject
        /\ NoStorage
        /\ NoCodec
        /\ NoTransform
        /\ recent = <<>>
        /\ step = "idle"
        /\ inUse = Null
        /\ backendRequest = NoRequest
        /\ credentialCall = NoCredentialCall

\* the fetch function is called: getAuth, loadAccounts (null when the file
\* cannot be read) and new AccountManager
DispatchBegin(readOk) ==
    /\ step \in {"idle", "done"}
    /\ \E stored \in {IF readOk THEN accountStore ELSE NoAccountStorage} :
       \E manager \in {AccountManager(hostCredential, stored)} :
            /\ accounts' = manager.accounts
            /\ currentIndex' = manager.currentIndex
            /\ currentAccountIndex' = manager.currentAccountIndex
            /\ credentialCall' = CredentialCall("constructor", hostCredential, stored, <<>>)
    /\ step' = "select"
    /\ inUse' = Null
    /\ backendRequest' = NoRequest
    /\ UNCHANGED <<now, hostCredential, accountStore>>
    /\ UNCHANGED credentialFrame

\* top of the loop: the account is chosen, a switch is marked and saved; when
\* every account is rate limited the loop sleeps, and the caller aborts the
\* sleep
DispatchSelect(writeOk) ==
    /\ step = "select"
    /\ \E r \in {getCurrentOrNextForFamily(accounts, currentIndex, currentAccountIndex,
                                           "claude", now)} :
        LET previousAccount == getCurrentAccount(accounts, currentAccountIndex)
            isSwitch == previousAccount = Null \/ previousAccount # r.account
        IN  /\ r.currentIndex <= MaxCursor
            /\ accounts' = r.accounts
            /\ currentIndex' = r.currentIndex
            /\ IF r.account = Null
               THEN /\ writeOk
                    /\ step' = "done"
                    /\ UNCHANGED <<currentAccountIndex, accountStore, inUse>>
               ELSE /\ currentAccountIndex' = r.accounts[r.account].index
                    /\ inUse' = r.account
                    /\ step' = "token"
                    /\ IF isSwitch
                       THEN accountStore' =
                                IF writeOk
                                THEN AccountStorage(r.accounts, r.accounts[r.account].index)
                                ELSE accountStore
                       ELSE writeOk /\ UNCHANGED accountStore
    /\ credentialCall' = CredentialCall("select", NoCredential, NoAccountStorage, <<>>)
    /\ UNCHANGED <<now, hostCredential, backendRequest>>
    /\ UNCHANGED credentialFrame

\* accountToAuth, accessTokenExpired and refreshAccessToken: the token request
\* fails, is answered invalid_grant, or is answered with a token payload
DispatchToken(answer, setOk, writeOk) ==
    /\ step = "token"
    /\ LET authRecord == accountToOAuth(accounts[inUse])
           refreshed == updatedAuth(authRecord, now)
           updated == updateAccount(accounts, inUse, refreshed.access, refreshed.expires,
                                    parseRefreshParts(refreshed.refresh))
       IN  IF ~accessTokenExpired(authRecord, now)
           THEN /\ answer = "none" /\ setOk /\ writeOk
                /\ step' = "project"
                /\ credentialCall' =
                        CredentialCall("token", NoCredential, NoAccountStorage, <<>>)
                /\ UNCHANGED <<accounts, hostCredential, accountStore>>
           ELSE IF answer = "failed"
           THEN /\ setOk /\ writeOk
                /\ step' = "select"
                /\ credentialCall' =
                        CredentialCall("token", NoCredential, NoAccountStorage, <<>>)
                /\ UNCHANGED <<accounts, hostCredential, accountStore>>
           ELSE IF answer = "invalid_grant"
           THEN /\ writeOk
                /\ parseRefreshParts(authRecord.refresh).refreshToken # <<>>
                /\ step' = "select"
                /\ hostCredential' = IF setOk THEN clearedAuth(authRecord) ELSE hostCredential
                /\ credentialCall' =
                        CredentialCall("token", NoCredential, NoAccountStorage,
                                       IF setOk THEN <<clearedAuth(authRecord)>> ELSE <<>>)
                /\ UNCHANGED <<accounts, accountStore>>
           ELSE /\ answer = "ok" /\ setOk
                /\ parseRefreshParts(authRecord.refresh).refreshToken # <<>>
                /\ step' = "project"
                /\ accounts' = updated
                /\ accountStore' = IF writeOk
                                   THEN AccountStorage(updated, currentAccountIndex)
                                   ELSE accountStore
                /\ credentialCall' =
                        CredentialCall("token", NoCredential, NoAccountStorage, <<>>)
                /\ UNCHANGED hostCredential
    /\ UNCHANGED <<currentIndex, currentAccountIndex, now, inUse, backendRequest>>
    /\ UNCHANGED credentialFrame

\* ensureProjectContext with the credential of the account: a credential that
\* names a project needs no resolution; else loadCodeAssist or onboardUser
\* yields a managed project, which is stored with client.auth.set, or the
\* resolution throws.  The result is cached under the key of the credential
\* with the managed project, which no later call asks for.
DispatchProject(found, setOk) ==
    /\ step = "project"
    /\ LET authRecord == accountToOAuth(accounts[inUse])
           parts == parseRefreshParts(authRecord.refresh)
       IN  IF parts.projectId # UndefinedPart \/ parts.managedProjectId # UndefinedPart
           THEN /\ found /\ setOk
                /\ step' = "request"
                /\ credentialCall' =
                        CredentialCall("project", NoCredential, NoAccountStorage, <<>>)
                /\ UNCHANGED hostCredential
           ELSE IF found /\ setOk
           THEN /\ step' = "request"
                /\ hostCredential' = managedAuth(authRecord, <<"m">>)
                /\ credentialCall' =
                        CredentialCall("project", NoCredential, NoAccountStorage,
                                       <<managedAuth(authRecord, <<"m">>)>>)
           ELSE /\ step' = "done"
                /\ credentialCall' =
                        CredentialCall("project", NoCredential, NoAccountStorage, <<>>)
                /\ UNCHANGED hostCredential
    /\ UNCHANGED <<accounts, currentIndex, currentAccountIndex, now, accountStore, inUse,
                   backendRequest>>
    /\ UNCHANGED credentialFrame

\* tryEndpointFallbacks sends the request with the access token of the
\* credential; the answer is a success (the credential of the manager and the
\* accounts are stored), a 429 that marks the account (the accounts are
\* stored), a 429 retried soon, or a failure that ends the dispatch
DispatchRequest(result, setOk, writeOk) ==
    /\ step = "request"
    /\ backendRequest' = [account |-> accounts[inUse].parts.refreshToken,
                          accessToken |-> accounts[inUse].access]
    /\ LET marked == markRateLimited(accounts, inUse, LongRetryAfterMs, "claude", now)
       IN  IF result = "success"
           THEN /\ step' = "done"
                /\ hostCredential' =
                        IF setOk THEN toAuthDetails(accounts, currentAccountIndex)
                        ELSE hostCredential
                /\ accountStore' =
                        IF setOk /\ writeOk
                        THEN AccountStorage(accounts, currentAccountIndex)
                        ELSE accountStore
                /\ credentialCall' =
                        CredentialCall("request", NoCredential, NoAccountStorage,
                            IF setOk THEN <<toAuthDetails(accounts, currentAccountIndex)>>
                            ELSE <<>>)
                /\ UNCHANGED accounts
           ELSE IF result = "rate-limit"
           THEN /\ setOk
                /\ step' = "select"
                /\ accounts' = marked
                /\ accountStore' = IF writeOk
                                   THEN AccountStorage(marked, currentAccountIndex)
                                   ELSE accountStore
                /\ credentialCall' =
                        CredentialCall("request", NoCredential, NoAccountStorage, <<>>)
                /\ UNCHANGED hostCredential
           ELSE /\ result \in {"retry-soon", "all-failed"} /\ setOk /\ writeOk
                /\ step' = IF result = "retry-soon" THEN "select" ELSE "done"
                /\ credentialCall' =
                        CredentialCall("request", NoCredential, NoAccountStorage, <<>>)
                /\ UNCHANGED <<accounts, hostCredential, accountStore>>
    /\ UNCHANGED <<currentIndex, currentAccountIndex, now, inUse>>
    /\ UNCHANGED credentialFrame

NextCredential ==
    \/ \E readOk \in BOOLEAN : DispatchBegin(readOk)
    \/ \E writeOk \in BOOLEAN : DispatchSelect(writeOk)
    \/ \E answer \in {"none", "failed", "invalid_grant", "ok"}, setOk, writeOk \in BOOLEAN :
            DispatchToken(answer, setOk, writeOk)
    \/ \E found, setOk \in BOOLEAN : DispatchProject(found, setOk)
    \/ \E result \in {"success", "rate-limit", "retry-soon", "all-failed"},
          setOk, writeOk \in BOOLEAN :
            DispatchRequest(result, setOk, writeOk)

SpecCredential == InitCredential /\ [][NextCredential]_vars


\* ------------------------------------------------------------------ claims
\* Stated over the stored reset times and the clock, not over the manager's
\* own helpers.
ResetOf(p, f) == accounts[p].rateLimitResetTimes[f]

EligibleNow(p, f) == ResetOf(p, f) = Undefined \/ now >= ResetOf(p, f)

PaidEligible(f) == \E p \in 1..Len(accounts) : accounts[p].tier = "paid" /\ EligibleNow(p, f)

Selected == last.op = "getCurrentOrNextForFamily"

\* C2: whenever a paid account is not rate-limited for the family,
\* getCurrentOrNextForFamily returns a paid account, also when the current
\* account is a free one that is not rate-limited.
C2_PaidPreferred ==
    (Selected /\ PaidEligible(last.family))
        => (last.ret # Null /\ accounts[last.ret].tier = "paid")

\* a free current account that was not rate-limited gave way to a paid one
C2_Witness ==
    /\ Selected
    /\ last.prev # Null
    /\ accounts[last.prev].tier = "free"
    /\ EligibleNow(last.prev, last.family)
    /\ last.ret # Null
    /\ last.ret # last.prev
    /\ accounts[last.ret].tier = "paid"

\* a paid account that is eligible for f outranks the free (or tierless) account p
Outranked(p, f) == accounts[p].tier # "paid" /\ PaidEligible(f)

C3_StickyCall ==
    (Selected /\ last.prev # Null) =>
        /\ (EligibleNow(last.prev, last.family) /\ ~Outranked(last.prev, last.family))
              => (last.ret = last.prev /\ currentAccountIndex = last.prev - 1)
        /\ (~EligibleNow(last.prev, last.family)
              /\ \E q \in 1..Len(accounts) : EligibleNow(q, last.family))
              => /\ last.ret # Null
                 /\ last.ret # last.prev
                 /\ EligibleNow(last.ret, last.family)
                 /\ currentAccountIndex = last.ret - 1

C3_StickyStep ==
    \A f \in Families :
        (Selected /\ last.family = f /\ last.ret # Null /\ GetCurrentOrNextForFamily(f))
            => last'.ret = last.ret

\* C3: selection is sticky.  A call returns the current account while it is not
\* rate-limited for the family and no eligible paid account outranks it; when
\* the current account is rate-limited the call returns another, eligible
\* account and makes it current; and a call that directly follows a call for
\* the same family returns the same account again.
C3_Sticky == []C3_StickyCall /\ [][C3_StickyStep]_vars

\* the paid current account was rate-limited and another paid account took over
C3_Witness ==
    /\ Selected
    /\ last.prev # Null
    /\ ~EligibleNow(last.prev, last.family)
    /\ last.ret # Null
    /\ last.ret # last.prev
    /\ accounts[last.prev].tier = "paid"
    /\ accounts[last.ret].tier = "paid"
    /\ currentAccountIndex = last.ret - 1

\* C4: getCurrentOrNextForFamily and getNextForFamily never return an account
\* whose reset time for the family is still in the future, and they return
\* null exactly when every account is rate-limited for the family.
C4_NeverLimited ==
    (last.op \in {"getCurrentOrNextForFamily", "getNextForFamily"}) =>
        /\ last.ret # Null => EligibleNow(last.ret, last.family)
        /\ last.ret = Null <=> \A p \in 1..Len(accounts) : ~EligibleNow(p, last.family)

\* two accounts, both rate-limited for the family: null
C4_Witness ==
    /\ last.op \in {"getCurrentOrNextForFamily", "getNextForFamily"}
    /\ last.ret = Null
    /\ Len(accounts) >= 2
    /\ \A p \in 1..Len(accounts) : ~EligibleNow(p, last.family)

\* C5: markRateLimited(account, ms, F) sets the account's reset time for F to
\* now + ms and changes no other reset time, of this account or of another.
C5_FamilyIndependent ==
    [][\A a \in 1..MaxAccounts, ms \in RetryChoices, f \in Families :
          MarkRateLimited(a, ms, f) =>
              /\ accounts'[a].rateLimitResetTimes[f] = now + ms
              /\ \A p \in 1..Len(accounts), g \in Families :
                    (p # a \/ g # f) =>
                        accounts'[p].rateLimitResetTimes[g] = accounts[p].rateLimitResetTimes[g]
              /\ Len(accounts') = Len(accounts)]_vars

\* an account rate-limited for one family and still eligible for the others
C5_Witness ==
    /\ last.op = "markRateLimited"
    /\ \E p \in 1..Len(accounts), f \in Families :
          /\ ~EligibleNow(p, f)
          /\ \A g \in Families \ {f} : ResetOf(p, g) = Undefined

C7_CurrentIsLive ==
    \/ currentAccountIndex = 0 - 1
    \/ /\ currentAccountIndex >= 0
       /\ currentAccountIndex < Len(accounts)
       /\ Cardinality({p \in 1..Len(accounts) : accounts[p].index = currentAccountIndex}) = 1

\* C8: every account's index field is its 0-based position in the list.
C8_DenseIndices == \A p \in 1..Len(accounts) : accounts[p].index = p - 1

\* an account in front of another was removed
C8_Witness ==
    /\ last.op = "removeAccount"
    /\ last.ret = 1
    /\ last.arg < Len(accounts)

\* C9: getMinWaitTimeForFamily returns 0 when an account is eligible for the
\* family, otherwise the smallest remaining time to a reset of that family;
\* the result is never negative.
C9_MinWait ==
    (last.op = "getMinWaitTimeForFamily") =>
        /\ last.ret >= 0
        /\ (\E p \in 1..Len(accounts) : EligibleNow(p, last.family)) => last.ret = 0
        /\ (Len(accounts) > 0 /\ \A p \in 1..Len(accounts) : ~EligibleNow(p, last.family))
              => /\ \E p \in 1..Len(accounts) : ResetOf(p, last.family) - now = last.ret
                 /\ \A p \in 1..Len(accounts) : ResetOf(p, last.family) - now >= last.ret

\* two accounts with different remaining times, the smaller one returned
C9_Witness ==
    /\ last.op = "getMinWaitTimeForFamily"
    /\ last.ret > 0
    /\ \E p, q \in 1..Len(accounts) :
          /\ ResetOf(p, last.family) - now = last.ret
          /\ ResetOf(q, last.family) - now > last.ret

\* the last fetch of the loop iteration was answered with a 429
RateLimitedResponse == Len(contacted) > 0 /\ contacted[Len(contacted)].status = 429

\* the waits of the dispatch: every one of them is a rate-limit wait
WaitKinds == {"all-limited", "retry-soon", "rate-limit"}

C1_NeverSurfaced ==
    /\ outcome.kind = "returned" => outcome.status # 429
    /\ RateLimitedResponse => outcome.kind # "returned"
    /\ (outcome.kind = "rejected" /\ (RateLimitedResponse \/ outcome.during \in WaitKinds))
          => /\ outcome.reason = "abort"
             /\ outcome.during \in WaitKinds
             /\ abortSignal

C1_BacksOffOrRotates ==
    (pc = "fetch" /\ contacted' # contacted /\ RateLimitedResponse') =>
        /\ outcome'.kind = "pending"
        /\ \/ /\ pc' = "sleep"
              /\ sleeping'.kind \in {"retry-soon", "rate-limit"}
              /\ sleeping'.remainingMs > 0
           \/ /\ pc' = "select"
              /\ Len(accounts) > 1
              /\ accounts'[usedAccount].rateLimitResetTimes[requestFamily] > now

\* C1: a 429 of the backend is never returned or thrown to the caller of the
\* dispatch: the response handed back never has status 429; a fetch answered
\* with 429 leaves the dispatch pending, either in a back-off sleep or about
\* to select again with the account marked rate-limited; and a dispatch that
\* handles a 429 or waits for a rate limit rejects only out of a wait, with
\* the caller's abort signal fired.
C1_RateLimitNotSurfaced == []C1_NeverSurfaced /\ [][C1_BacksOffOrRotates]_vars

\* a 429 was answered by a back-off, a later 429 by a rotation, and the
\* dispatch then returned a 200
C1_Witness ==
    /\ outcome.kind = "returned"
    /\ outcome.status = 200
    /\ now > 0
    /\ \E i \in DOMAIN rateLimitStateByAccount : rateLimitStateByAccount[i] > 0

\* the outcomes after which tryEndpointFallbacks moves to the next endpoint
FallbackOutcome(status) == status \in {403, 404, NetworkError} \/ status >= 500

\* C10: within one loop iteration the endpoints are contacted in the order
\* daily, autopush, prod, each at most once; an endpoint after the first is
\* contacted only when the one before answered 403, 404 or 5xx or the fetch
\* threw; and such a failure is returned or thrown to the caller only when
\* all three endpoints have been contacted.
C10_FallbackOrder ==
    /\ Len(contacted) <= 3
    /\ \A k \in 1..Len(contacted) : contacted[k].endpoint = <<"daily", "autopush", "prod">>[k]
    /\ \A k \in 1..(Len(contacted) - 1) : FallbackOutcome(contacted[k].status)
    /\ (outcome.kind = "returned" /\ FallbackOutcome(outcome.status)) => Len(contacted) = 3
    /\ (outcome.kind = "rejected" /\ outcome.reason = "network") => Len(contacted) = 3

\* a 5xx, then a thrown fetch, then a 404 from the last endpoint, which is
\* handed back
C10_Witness ==
    /\ Len(contacted) = 3
    /\ contacted[1].status >= 500
    /\ contacted[2].status = NetworkError
    /\ contacted[3].status = 404
    /\ outcome.kind = "returned"
    /\ outcome.status = 404

\* the last endpoint of the loop iteration answered with a 5xx
ServerErrorExhausted ==
    /\ Len(contacted) = 3
    /\ contacted[3].status >= 500

C11_CoolDown ==
    (pc = "fetch" /\ contacted' # contacted /\ ServerErrorExhausted') =>
        /\ accounts'[usedAccount].rateLimitResetTimes[requestFamily] = now + 60000
        /\ \A p \in 1..Len(accounts), g \in Families :
              (p # usedAccount \/ g # requestFamily) =>
                  accounts'[p].rateLimitResetTimes[g] = accounts[p].rateLimitResetTimes[g]

C11_Rotates ==
    (pc = "select" /\ pc' # pc /\ ServerErrorExhausted
        /\ \E q \in 1..Len(accounts) : q # usedAccount /\ EligibleNow(q, requestFamily)) =>
        /\ pc' = "token"
        /\ usedAccount' # usedAccount
        /\ usedAccount' \in 1..Len(accounts)
        /\ currentAccountIndex' = usedAccount' - 1

\* C11: a 5xx from the last fallback endpoint marks the account rate-limited
\* for the family of the request until now + 60000 ms and changes no other
\* reset time; and when another account is eligible, the next loop iteration
\* of the dispatch runs with a different account.
C11_ServerErrorCoolDown == [][C11_CoolDown /\ C11_Rotates]_vars

\* after three 5xx answers the dispatch went on with another account while the
\* first one cools down for 60 s
C11_Witness ==
    /\ pc = "token"
    /\ fetches = 3
    /\ usedAccount # Null
    /\ \E p \in 1..Len(accounts) :
          /\ p # usedAccount
          /\ ResetOf(p, requestFamily) = now + 60000

\* C12: revocation is permanent: a refresh token for which the server answered
\* invalid_grant is never sent to the server again, so no refresh token
\* receives a second invalid_grant.
C12_NeverRetried == \A r \in DOMAIN invalidGrants : invalidGrants[r] <= 1

\* a token request was sent by the call made on its own
RefreshRequested ==
    /\ refreshCall.exchange.kind \in {"throws", "error", "ok"}
    /\ refreshCall.auth.refresh # 0

C14_FailureNoWrite ==
    (RefreshRequested
        /\ \/ refreshCall.exchange.kind = "throws"
           \/ refreshCall.exchange.kind = "error" /\ refreshCall.exchange.code # "invalid_grant") =>
        /\ refreshCall.result = <<>>
        /\ hostAuth = refreshCall.hostBefore
        /\ saved = refreshCall.savedBefore

\* an error answer other than invalid_grant, with the login credential stored
C14_Witness ==
    /\ RefreshRequested
    /\ refreshCall.exchange.kind = "error"
    /\ refreshCall.exchange.code = "other"
    /\ refreshCall.result = <<>>
    /\ hostAuth = "login"

\* the resolutions in flight that call loadCodeAssist / onboardUser for the key
NetworkResolutions(key) == {r \in resolving : r.key = key}

\* C15: for every cache key at most one project resolution is in flight.
C15_SingleFlight ==
    \A key \in CacheKeys : key > 0 => Cardinality(NetworkResolutions(key)) <= 1

C16_BoundedStep ==
    (pc = "sleep" /\ (now' # now \/ pc' # pc)) =>
        IF abortSignal
        THEN /\ pc' = "done"
             /\ outcome'.kind = "rejected"
             /\ outcome'.reason = "abort"
             /\ now' = now
        ELSE /\ now' - now > 0
             /\ now' - now <= 30000
             /\ now' - now <= sleeping.remainingMs
             /\ outcome'.kind = "pending"

C16_NoStepAfterReject ==
    outcome.kind = "rejected" => (now' = now /\ pc' = pc /\ outcome' = outcome)

\* C16: every step of a backoff wait lasts at most 30 s and no longer than
\* what remains of the wait; a step that finds the abort signal fired rejects
\* the dispatch with the abort and lets no time pass; once rejected, no further
\* step is taken.
C16_Interruptible == [][C16_BoundedStep /\ C16_NoStepAfterReject]_vars

\* a wait of more than a minute aborted in its 30 s steps
C16_Witness ==
    /\ outcome.kind = "rejected"
    /\ outcome.reason = "abort"
    /\ sleeping.stepIndex >= 5
    /\ sleeping.remainingMs > 30000
    /\ now > 0

\* the reset time a document holds for a family of its p-th account
StoredReset(doc, p, f) ==
    IF doc.accounts[p].rateLimitResetTimes = NoObject THEN Undefined
    ELSE doc.accounts[p].rateLimitResetTimes[f]

\* C17: a rate-limit mark that the file holds and that has not expired is
\* still in the file after any save of any dispatch.
C17_NoLostUpdate ==
    [][\A p \in 1..Len(storageFile.accounts), f \in Families :
          (StoredReset(storageFile, p, f) # Undefined /\ now < StoredReset(storageFile, p, f))
              => /\ p <= Len(storageFile'.accounts)
                 /\ StoredReset(storageFile', p, f) = StoredReset(storageFile, p, f)]_vars

\* the loadAccounts call just made read a document of version v, and returned
\* a document
Read(v) ==
    /\ loadCall.called
    /\ loadCall.input # InvalidJson
    /\ "accountsIsArray" \notin DOMAIN loadCall.input
    /\ loadCall.input.version = v

Loaded(v) ==
    /\ Read(v)
    /\ loadCall.result # NoDocument

\* C18: a load of a v1 document returns a v3 document with the same accounts in
\* which an account that was rate-limited with reset time T has T for claude,
\* gemini-flash and gemini-pro, and any other account has no reset-time object;
\* the upgraded document is in the file when the load returns.
C18_MigratesV1 ==
    Loaded(1) =>
        /\ loadCall.result.version = 3
        /\ Len(loadCall.result.accounts) = Len(loadCall.input.accounts)
        /\ \A i \in 1..Len(loadCall.input.accounts) :
              LET old == loadCall.input.accounts[i]
                  new == loadCall.result.accounts[i]
              IN  /\ new.refreshToken = old.refreshToken
                  /\ IF old.isRateLimited /\ old.rateLimitResetTime > 0
                     THEN /\ new.rateLimitResetTimes # NoObject
                          /\ \A f \in Families :
                                new.rateLimitResetTimes[f] = old.rateLimitResetTime
                     ELSE new.rateLimitResetTimes = NoObject
        /\ Len(loadCall.saveCalls) = 1
        /\ storageFile = loadCall.saveCalls[1]
        /\ storageFile.version = 3
        /\ storageFile.accounts = loadCall.result.accounts

\* a v1 document with a rate-limited and a not rate-limited account was loaded
C18_Witness ==
    /\ Loaded(1)
    /\ \E i, j \in 1..Len(loadCall.input.accounts) :
          /\ loadCall.input.accounts[i].isRateLimited
          /\ loadCall.input.accounts[i].rateLimitResetTime = 5
          /\ StoredReset(loadCall.result, i, "gemini-pro") = 5
          /\ ~loadCall.input.accounts[j].isRateLimited
          /\ storageFile.accounts[j].rateLimitResetTimes = NoObject

\* the reset time a v2 document holds under a key of its i-th account
V2Reset(doc, i, k) ==
    IF doc.accounts[i].rateLimitResetTimes = NoObject THEN Undefined
    ELSE doc.accounts[i].rateLimitResetTimes[k]

\* C19: a load of a v2 document returns a v3 document with the same accounts in
\* which gemini-flash and gemini-pro both hold what gemini held and claude
\* holds what claude held, an absent key staying absent.
C19_MigratesV2 ==
    Loaded(2) =>
        /\ loadCall.result.version = 3
        /\ Len(loadCall.result.accounts) = Len(loadCall.input.accounts)
        /\ \A i \in 1..Len(loadCall.input.accounts) :
              /\ loadCall.result.accounts[i].refreshToken
                    = loadCall.input.accounts[i].refreshToken
              /\ StoredReset(loadCall.result, i, "gemini-flash")
                    = V2Reset(loadCall.input, i, "gemini")
              /\ StoredReset(loadCall.result, i, "gemini-pro")
                    = V2Reset(loadCall.input, i, "gemini")
              /\ StoredReset(loadCall.result, i, "claude")
                    = V2Reset(loadCall.input, i, "claude")

\* a v2 document with a gemini reset time and no claude reset time was loaded
C19_Witness ==
    /\ Loaded(2)
    /\ \E i \in 1..Len(loadCall.input.accounts) :
          /\ V2Reset(loadCall.input, i, "gemini") = 7
          /\ V2Reset(loadCall.input, i, "claude") = Undefined
          /\ StoredReset(loadCall.result, i, "gemini-flash") = 7
          /\ StoredReset(loadCall.result, i, "gemini-pro") = 7
          /\ StoredReset(loadCall.result, i, "claude") = Undefined

\* C20, as stated: a load of a v3 document returns the document it read and
\* writes nothing.
C20_V3Unchanged ==
    Read(3) =>
        /\ loadCall.result = loadCall.input
        /\ loadCall.saveCalls = <<>>
        /\ storageFile = loadCall.input

ValidActiveIndex(doc) ==
    doc.activeIndex >= 0 /\ doc.activeIndex < Len(doc.accounts)

\* C20, amended: a load of a v3 document returns the document it read, with
\* activeIndex replaced by 0 when it is no index of the account list, and
\* writes nothing; a load that writes has read a v1 or a v2 document.
C20_V3NoWrite ==
    /\ Read(3) =>
          /\ loadCall.result =
                [loadCall.input EXCEPT !.activeIndex =
                    IF ValidActiveIndex(loadCall.input) THEN @ ELSE 0]
          /\ loadCall.saveCalls = <<>>
          /\ storageFile = loadCall.input
    /\ (loadCall.called /\ loadCall.saveCalls # <<>>) => (Read(1) \/ Read(2))

\* a v3 document with reset times and a tier was loaded as it is
C20_Witness ==
    /\ Loaded(3)
    /\ Len(loadCall.input.accounts) = 2
    /\ loadCall.input.activeIndex = 1
    /\ StoredReset(loadCall.input, 1, "claude") = 5
    /\ loadCall.input.accounts[2].tier = "paid"
    /\ loadCall.result = loadCall.input
    /\ storageFile = loadCall.input

\* a file loadAccounts cannot use
Unusable(file) ==
    \/ file \in {NoDocument, InvalidJson}
    \/ "accountsIsArray" \in DOMAIN file
    \/ file.version \notin {1, 2, 3}

\* C21: no load throws; the load of a missing file, of text that is no JSON,
\* of a document whose accounts are no array or whose version is unknown or
\* missing returns null, writes nothing and leaves the file as it is.
C21_NeverThrows ==
    loadCall.called =>
        /\ ~loadCall.threw
        /\ Unusable(loadCall.input) =>
              /\ loadCall.result = NoDocument
              /\ loadCall.saveCalls = <<>>
              /\ storageFile = loadCall.input

\* text that is no JSON was loaded
C21_Witness ==
    /\ loadCall.called
    /\ loadCall.input = InvalidJson
    /\ loadCall.result = NoDocument

\* a packed string of one account: a non-empty token and a project segment,
\* or these and a non-empty managed project segment
WellFormedSingle(x) ==
    LET segments == Split(x, <<"|">>)
    IN  /\ Len(segments) \in {2, 3}
        /\ segments[1] # <<>>
        /\ Len(segments) = 3 => segments[3] # <<>>

\* C22: the string formatted from the parts parsed out of a well-formed
\* single-account string is that string.
C22_RoundTrip ==
    (codecCall.op = "single" /\ WellFormedSingle(refreshString))
        => codecCall.output = refreshString

\* a string with a managed project id and no project id went through the codec
C22_Witness ==
    /\ codecCall.op = "single"
    /\ refreshString = <<"a", "|", "|", "b">>
    /\ codecCall.parts[1].projectId = UndefinedPart
    /\ codecCall.parts[1].managedProjectId = <<"b">>
    /\ codecCall.output = refreshString

RECURSIVE WellFormedMulti(_)
\* well-formed single-account strings joined by the account separator
WellFormedMulti(y) ==
    \/ WellFormedSingle(y)
    \/ \E i \in 2..(Len(y) - 2) :
          /\ SubSeq(y, i, i + 1) = ACCOUNT_SEPARATOR
          /\ WellFormedSingle(SubSeq(y, 1, i - 1))
          /\ WellFormedMulti(SubSeq(y, i + 2, Len(y)))

\* C23: the string formatted from the accounts parsed out of a well-formed
\* multi-account string is that string.
C23_MultiRoundTrip ==
    (codecCall.op = "multi" /\ WellFormedMulti(refreshString))
        => codecCall.output = refreshString

\* the cache holds a signature under exactly this family, session and text
CachedFor(cache, family, sessionId, text) ==
    \E key \in DOMAIN cache :
        /\ key[1] = family
        /\ key[2] = sessionId
        /\ key[3] = normalizeThoughtText(text)
        /\ cache[key].length > 0

IsThought(part) == part.kind = "thought"

IsPlainText(part) == part.kind = "text"

\* what a reader of the conversation sees of a part
Shown(parts) == [i \in 1..Len(parts) |-> <<parts[i].kind, parts[i].text>>]

\* s is t with some elements left out, the others in their order
RECURSIVE IsSubsequence(_, _)
IsSubsequence(s, t) ==
    IF s = <<>> THEN TRUE
    ELSE IF t = <<>> THEN FALSE
    ELSE IF Head(s) = Head(t) THEN IsSubsequence(Tail(s), Tail(t))
    ELSE IsSubsequence(s, Tail(t))

TransformedFor(op) == transformCall.op = op

\* C24: thinking signatures do not cross families: in a request built for the
\* claude family, a thinking block whose text has a signature cached under a
\* Gemini family of the session, and none under claude, is removed, and the
\* plain text parts of every turn are kept unchanged.
C24_NoCrossFamily ==
    TransformedFor("claude") =>
        \A c \in 1..Len(transformCall.input.contents) :
            LET given == transformCall.input.contents[c].parts
                sent == transformCall.output.contents[c].parts
            IN  /\ \A i \in 1..Len(given) :
                       ( /\ IsThought(given[i])
                         /\ \E family \in Families \ {"claude"} :
                                CachedFor(transformCall.cache, family,
                                          transformCall.context.sessionId, given[i].text)
                         /\ ~CachedFor(transformCall.cache, "claude",
                                       transformCall.context.sessionId, given[i].text) )
                       => \A j \in 1..Len(sent) :
                              ~(IsThought(sent[j]) /\ sent[j].text = given[i].text)
                /\ SelectSeq(sent, IsPlainText) = SelectSeq(given, IsPlainText)

\* C25: in a Claude request a thinking block whose signature has at least 50
\* characters is kept as it is and its text then has that signature in the
\* claude cache of the session; a block whose signature has fewer than 50
\* characters and whose text has no signature in that cache is dropped; the
\* parts that remain are in their original order.
C25_KeepsValidSignature ==
    TransformedFor("claude") =>
        \A c \in 1..Len(transformCall.input.contents) :
            LET given == transformCall.input.contents[c].parts
                sent == transformCall.output.contents[c].parts
                sessionId == transformCall.context.sessionId
            IN  /\ \A i \in 1..Len(given) :
                       IsThought(given[i]) /\ given[i].thoughtSignature.length >= 50
                       => /\ \E j \in 1..Len(sent) : sent[j] = given[i]
                          /\ getSignatureKey("claude", sessionId, given[i].text)
                                 \in DOMAIN signatureCache
                          /\ \E j \in 1..Len(given) :
                                 /\ IsThought(given[j])
                                 /\ given[j].text = given[i].text
                                 /\ given[j].thoughtSignature.length >= 50
                                 /\ signatureCache[getSignatureKey("claude", sessionId,
                                                                   given[i].text)]
                                        = given[j].thoughtSignature
                /\ \A i \in 1..Len(given) :
                       ( /\ IsThought(given[i])
                         /\ given[i].thoughtSignature.length < 50
                         /\ ~CachedFor(signatureCache, "claude", sessionId, given[i].text) )
                       => \A j \in 1..Len(sent) :
                              ~(IsThought(sent[j]) /\ sent[j].text = given[i].text)
                /\ IsSubsequence(Shown(sent), Shown(given))

\* the thinking parts of a model turn that stay in a Gemini request: those
\* whose text, as the request carries it on, has a signature in the cache
\* under the family and the session of the request
OwnThinking(parts, call) ==
    LET Own(part) == /\ IsThought(part)
                     /\ CachedFor(call.cache, call.context.family,
                                  call.context.sessionId, part.text)
    IN  SelectSeq(parts, Own)

Scrubbed(parts) ==
    [i \in 1..Len(parts) |->
        IF parts[i].text = NoText THEN parts[i]
        ELSE [parts[i] EXCEPT !.text =
                 IF SelectSeq(parts[i].text, NotMarkerLine) = <<>> THEN EmptyText
                 ELSE SelectSeq(parts[i].text, NotMarkerLine)]]

\* C26: in a Gemini request a thinking part of a model turn is kept only if
\* its thought text has a signature cached for exactly the family and the
\* session of the request; every other thinking part of a model turn is
\* discarded; the parts of a user turn are left as they are.
C26_GeminiOwnFamilyOnly ==
    TransformedFor("gemini") =>
        \A c \in 1..Len(transformCall.input.contents) :
            LET given == transformCall.input.contents[c]
                sent == transformCall.output.contents[c]
            IN  IF given.role = "model"
                THEN /\ \A j \in 1..Len(sent.parts) :
                            IsThought(sent.parts[j])
                            => CachedFor(transformCall.cache, transformCall.context.family,
                                         transformCall.context.sessionId,
                                         sent.parts[j].text)
                     /\ Shown(SelectSeq(sent.parts, IsThought))
                            = Shown(OwnThinking(Scrubbed(given.parts), transformCall))
                ELSE sent = given

\* a Gemini request whose model turn held two thinking parts, one with a
\* signature of its family in the cache, which stayed, and one without, which
\* went, after a user turn whose part carried a signature and a marker line
C26_Witness ==
    /\ TransformedFor("gemini")
    /\ Len(SelectSeq(transformCall.input.contents[2].parts, IsThought)) = 2
    /\ Len(SelectSeq(transformCall.output.contents[2].parts, IsThought)) = 1
    /\ \E family \in Families \ {transformCall.context.family} :
           CachedFor(transformCall.cache, family, transformCall.context.sessionId,
                     <<"Let me check">>)
    /\ transformCall.input.contents[1].parts[1].thoughtSignature.length > 0

\* the output-token limit a generation config carries, under either spelling
OutputTokens(generationConfig) ==
    IF generationConfig.maxOutputTokens # Undefined THEN generationConfig.maxOutputTokens
    ELSE generationConfig.max_output_tokens

\* C27: after the transformation of a request for a Claude thinking model the
\* generation config carries a thinking budget and an output-token limit, and
\* the limit is strictly greater than the budget.
C27_OutputExceedsBudget ==
    (TransformedFor("claude") /\ Includes(transformCall.context.model, "thinking"))
    => LET generationConfig == transformCall.output.generationConfig
       IN  /\ generationConfig.defined
           /\ generationConfig.thinkingConfig.defined
           /\ generationConfig.thinkingConfig.thinkingBudget # Undefined
           /\ OutputTokens(generationConfig) # Undefined
           /\ OutputTokens(generationConfig) > generationConfig.thinkingConfig.thinkingBudget

\* the cached content references of a request body, place by place
CachedReferences(payload) ==
    <<payload.cached_content, payload.cachedContent,
      payload.extra_body.cached_content, payload.extra_body.cachedContent>>

HasCachedContent(payload) ==
    \E i \in 1..4 : CachedReferences(payload)[i] \notin {Absent, ""}

\* C28: when the request body holds a cached content reference in one of the
\* accepted places, the transformed request carries a reference in the field
\* cachedContent and in no other place, and extra_body is gone unless it has
\* other keys.
C28_OneCanonicalField ==
    (transformCall.op # "none" /\ HasCachedContent(transformCall.input))
    => /\ transformCall.output.cachedContent \notin {Absent, ""}
       /\ \E i \in 1..4 :
              CachedReferences(transformCall.input)[i] = transformCall.output.cachedContent
       /\ transformCall.output.cached_content = Absent
       /\ transformCall.output.extra_body.cached_content = Absent
       /\ transformCall.output.extra_body.cachedContent = Absent
       /\ transformCall.output.extra_body.defined = transformCall.input.extra_body.other

StartsWithDigit(name) == name # <<>> /\ name[1] \in Digits

Prefixed(name) == <<"t", "_">> \o name

\* the declaration is the only one of the request that Gemini gets under its name
OnlyOneNamed(tools, i) ==
    \A j \in 1..Len(tools) :
        j # i => tools[j].name \notin {tools[i].name, Prefixed(tools[i].name)}

\* the type normalizeToolCallArgs is to find for a parameter of a declaration
DeclaredType(funcDecl, paramName) ==
    IF funcDecl.properties.types[paramName] = "" THEN "unknown"
    ELSE funcDecl.properties.types[paramName]

\* C29: a tool whose name begins with a digit goes to a Gemini model with the
\* prefix t_ before its name, and the lookup that the normalization of a
\* response makes under the prefixed name finds, for each parameter, the type
\* that the tool's parameter schema declares.
C29_SanitizedNameFindsSchema ==
    TransformedFor("gemini") =>
        \A i \in 1..Len(transformCall.input.tools) :
            LET funcDecl == transformCall.input.tools[i]
            IN  StartsWithDigit(funcDecl.name) =>
                    /\ transformCall.output.tools[i].name = Prefixed(funcDecl.name)
                    /\ ( /\ toolCall.toolName = Prefixed(funcDecl.name)
                         /\ funcDecl.properties.defined
                         /\ OnlyOneNamed(transformCall.input.tools, i) )
                       => toolCall.expectedType = DeclaredType(funcDecl, toolCall.paramName)

\* a request declared the tool 21st with a string parameter besides another
\* tool, and the lookup under t_21st found the string type
C29_Witness ==
    /\ TransformedFor("gemini")
    /\ Len(transformCall.input.tools) = 2
    /\ \E i \in 1..2 :
           /\ transformCall.input.tools[i].name = <<"2", "1", "s", "t">>
           /\ transformCall.input.tools[i].properties.defined
           /\ transformCall.input.tools[i].properties.types["code"] = "string"
           /\ transformCall.output.tools[i].name = <<"t", "_", "2", "1", "s", "t">>
    /\ toolCall.toolName = <<"t", "_", "2", "1", "s", "t">>
    /\ toolCall.paramName = "code"
    /\ toolCall.expectedType = "string"

\* C30: in a dispatch every rate-limit mark, account switch and applied token
\* refresh of the manager is followed by a save() call before the dispatch
\* selects an account again or settles.
C30_MutationsSaved ==
    pc \in {"select", "done"} => unsavedMutations = {}

\* ---------------------------------------------------------------- C31
\* the members of a pool
PoolMembers(pool) == {pool[i] : i \in 1..Len(pool)}

\* C31: getNextForFamily is a round robin within the eligible pool: every call
\* that returns an account leaves the cursor one higher than it found it and
\* returns the pool member at cursor modulo the size of the pool, and whenever
\* k calls in a row found the same pool of k accounts, they returned every
\* member of that pool (hence each exactly once).
C31_RoundRobin ==
    /\ \A i \in 1..Len(recent) :
            recent[i].account # Null =>
                /\ recent[i].after = recent[i].cursor + 1
                /\ recent[i].pool # <<>>
                /\ recent[i].account =
                        recent[i].pool[(recent[i].cursor % Len(recent[i].pool)) + 1]
    /\ \A i \in 1..Len(recent) :
            LET k == Len(recent[i].pool)
            IN  (/\ k > 0
                 /\ i + k - 1 <= Len(recent)
                 /\ \A j \in i..(i + k - 1) : recent[j].pool = recent[i].pool)
                => {recent[j].account : j \in i..(i + k - 1)} = PoolMembers(recent[i].pool)

\* two calls in a row went round a pool of two
C31_Witness ==
    /\ Len(recent) >= 2
    /\ Len(recent[1].pool) = 2
    /\ recent[2].pool = recent[1].pool
    /\ recent[1].account # recent[2].account

\* ---------------------------------------------------------------- C32
\* C32: a manager built from stored accounts (a non-empty list) has exactly
\* the stored accounts, with their refresh parts and in their order, whatever
\* the live credential packs; the account at activeIndex carries the access
\* token and the expiry of the live credential and every other account has
\* neither.
C32_StorageAuthoritative ==
    (credentialCall.op = "constructor" /\ Len(credentialCall.stored.accounts) > 0) =>
        /\ Len(accounts) = Len(credentialCall.stored.accounts)
        /\ \A i \in 1..Len(accounts) :
            /\ accounts[i].index = i - 1
            /\ accounts[i].parts.refreshToken =
                    credentialCall.stored.accounts[i].refreshToken
            /\ accounts[i].parts.projectId = credentialCall.stored.accounts[i].projectId
            /\ accounts[i].parts.managedProjectId =
                    credentialCall.stored.accounts[i].managedProjectId
            /\ IF i - 1 = credentialCall.stored.activeIndex
               THEN /\ accounts[i].access = credentialCall.auth.access
                    /\ accounts[i].expires = credentialCall.auth.expires
               ELSE /\ accounts[i].access = NoAccess
                    /\ accounts[i].expires = Undefined

\* a manager was built from two stored accounts, the second the active one,
\* with a live credential that has an access token and does not pack the
\* refresh token of the first stored account
C32_Witness ==
    /\ credentialCall.op = "constructor"
    /\ Len(credentialCall.stored.accounts) = 2
    /\ credentialCall.stored.activeIndex = 1
    /\ credentialCall.auth.access # NoAccess
    /\ \A i \in 1..Len(parseMultiAccountRefresh(credentialCall.auth.refresh)) :
            parseMultiAccountRefresh(credentialCall.auth.refresh)[i].refreshToken
                # credentialCall.stored.accounts[1].refreshToken

\* ---------------------------------------------------------------- C33
\* C33: a dispatch never rejects because a show-toast call was rejected or a
\* store save failed while it handled a 429, a 5xx at the last endpoint or a
\* successful response.
C33_TransientNotSurfaced ==
    outcome.kind = "rejected" => outcome.reason \notin {"toast", "save"}

\* ---------------------------------------------------------------- C34
\* the parts of all contents, in order
RECURSIVE Flatten(_)
Flatten(contents) ==
    IF contents = <<>> THEN <<>>
    ELSE Head(contents).parts \o Flatten(Tail(contents))

\* the positions of the parts of a kind that name a tool, in order
PositionsOf(parts, kind, name) ==
    SelectSeq([i \in 1..Len(parts) |-> i],
              LAMBDA i : parts[i].kind = kind /\ parts[i].name = name)

\* C34: after transformClaudeRequest, for every tool name the k-th function
\* response of that name that came without an id carries the id of the k-th
\* function call of that name, every call has an id, and no two calls share
\* one.
C34_FifoPairing ==
    transformCall.op = "claude" =>
        LET input == Flatten(transformCall.input.contents)
            output == Flatten(transformCall.output.contents)
        IN  /\ Len(output) = Len(input)
            /\ \A name \in FunctionNames :
                LET calls == PositionsOf(input, "functionCall", name)
                    lacking == SelectSeq(PositionsOf(input, "functionResponse", name),
                                         LAMBDA i : input[i].id = NoId)
                IN  /\ \A k \in 1..Len(calls) :
                        /\ output[calls[k]].id # NoId
                        /\ \A j \in 1..Len(calls) :
                              j # k => output[calls[j]].id # output[calls[k]].id
                    /\ \A k \in 1..Len(lacking) :
                        k <= Len(calls) => output[lacking[k]].id = output[calls[k]].id

\* read was called twice in one turn without ids and answered twice without
\* ids: the two responses left with different ids
C34_Witness ==
    /\ transformCall.op = "claude"
    /\ Len(transformCall.input.contents[1].parts) = 2
    /\ Len(transformCall.input.contents[2].parts) = 2
    /\ \A k \in 1..2 :
        /\ transformCall.input.contents[1].parts[k] =
                FunctionPart("functionCall", "read", NoId)
        /\ transformCall.input.contents[2].parts[k] =
                FunctionPart("functionResponse", "read", NoId)
    /\ transformCall.output.contents[2].parts[1].id
            # transformCall.output.contents[2].parts[2].id
    /\ transformCall.output.contents[2].parts[1].id # NoId

\* ---------------------------------------------------------------- C35
\* C35: every request a dispatch sends for an account carries an access token
\* that was issued for the refresh token of that account.
C35_OwnAccessToken ==
    backendRequest # NoRequest =>
        backendRequest.accessToken = AccessTokenFor(backendRequest.account)

\* ---------------------------------------------------------------- C36
\* the refresh tokens packed in a credential
PackedTokens(auth) ==
    {parseMultiAccountRefresh(auth.refresh)[j].refreshToken :
        j \in 1..Len(parseMultiAccountRefresh(auth.refresh))}

\* C36: a credential that a step of a dispatch writes to the host store still
\* packs the refresh token of every account other than the one in use.
C36_SiblingsKept ==
    \A k \in 1..Len(credentialCall.authSet) :
        \A i \in 1..Len(accounts) :
            i # inUse => accounts[i].parts.refreshToken \in PackedTokens(credentialCall.authSet[k])

\* ---------------------------------------------------------------- C37
\* C37: packing a list of accounts and unpacking the string gives the same
\* number of accounts with the same parts in the same order.
C37_PackingLossless ==
    codecCall.op = "pack" => codecCall.output = codecCall.parts

\* ---------------------------------------------------------------- C38
\* C38: when the project of an account has been resolved and nothing was
\* invalidated since, a later ensureProjectContext for that account starts no
\* resolution (it is served from the result cache).
C38_ServedFromCache ==
    projectCall.kind = "started" =>
        projectContextResultCache[ResolvedKey(projectCall.key)] = NoEntry

\* ---------------------------------------------------------------- C39
\* the account in use is marked for the family of the request
UsedAccountMarked == accounts[usedAccount].rateLimitResetTimes[requestFamily] > now

\* the consecutive 429 answers of the account in use, this one included
Consecutive429 == rateLimitStateByAccount[accounts[usedAccount].index]

\* some account other than the one in use is not marked for the family
OtherAvailable ==
    \E i \in 1..Len(accounts) :
        i # usedAccount /\ accounts[i].rateLimitResetTimes[requestFamily] <= now

\* C39: with more than one account a 429 is retried in place only when the
\* delay is at most 5 s; otherwise, and at the fourth consecutive 429 at the
\* latest, the account is marked for the family and the loop leaves it: the
\* next selection is another account when one is available, never this one.
C39_SwitchByFourth ==
    [][(pc = "fetch" /\ contacted' # contacted /\ RateLimitedResponse' /\ Len(accounts) > 1) =>
          LET selected == getCurrentOrNextForFamily(accounts', currentIndex',
                              currentAccountIndex', requestFamily', now').account
              switched == /\ pc' = "select"
                          /\ UsedAccountMarked'
                          /\ selected # usedAccount'
                          /\ OtherAvailable' => selected # Null
              retried == /\ pc' = "sleep"
                         /\ sleeping'.kind = "retry-soon"
                         /\ sleeping'.remainingMs <= 5000
                         /\ accounts' = accounts
          IN  /\ retried \/ switched
              /\ Consecutive429' >= 4 => switched]_vars

C39_Witness ==
    /\ Len(accounts) > 1
    /\ usedAccount # Null
    /\ RateLimitedResponse
    /\ Consecutive429 = 4
    /\ contacted[Len(contacted)].retryAfterMs = NoServerRetry
    /\ pc = "select"
    /\ UsedAccountMarked
    /\ fetches > 1

\* ---------------------------------------------------------------- C40
\* the delay the 429 just handled was answered with: the wait begun, or the
\* distance of the reset time set
AppliedDelay ==
    IF pc = "sleep" THEN sleeping.remainingMs
    ELSE accounts[usedAccount].rateLimitResetTimes[requestFamily] - now

\* max(server retry hint, min(1 hour, 1 s * 2^(n-1)))
ExpectedDelay(n, hint) == Max({hint, Min({3600000, 1000 * 2 ^ (n - 1)})})

\* C40: the delay of the n-th consecutive 429 of an account is
\* max(hint, min(1 h, 1 s * 2^(n-1))): not below the hint and not below the
\* delay of any earlier count; a response that is handed back sets the count
\* of its account to zero.
C40_Backoff ==
    [][/\ (pc = "fetch" /\ contacted' # contacted /\ RateLimitedResponse') =>
            LET hint == contacted'[Len(contacted')].retryAfterMs
            IN  /\ Consecutive429' = Consecutive429 + 1
                /\ AppliedDelay' = ExpectedDelay(Consecutive429', hint)
                /\ AppliedDelay' >= hint
                /\ \A m \in 1..Consecutive429' : AppliedDelay' >= ExpectedDelay(m, hint)
       /\ (pc = "fetch" /\ outcome'.kind = "returned") => Consecutive429' = 0]_vars

C40_Witness ==
    /\ usedAccount # Null
    /\ RateLimitedResponse
    /\ Consecutive429 > LongRun429
    /\ contacted[Len(contacted)].retryAfterMs = 10000
    /\ pc = "select"
    /\ AppliedDelay = 3600000

====
